---- MODULE Spec2Model ----
(***************************************************************************)
(* A model of the survey-cleaning pipeline of CBD_LEZ_MDE.                 *)
(*                                                                         *)
(* Text is a sequence of characters, each character a one-character        *)
(* string, so that case folding, accent stripping, trimming, splitting and *)
(* substring search are computed the way the Python code computes them.    *)
(* A cell of a table is a record: [k |-> "na"] (NaN / None / pd.NA),       *)
(* [k |-> "num", n |-> i] (a number) or [k |-> "str", s |-> chars].        *)
(***************************************************************************)
EXTENDS Integers, Sequences, FiniteSets, TLC

(***************************************************************************)
(* Bounds of the model.                                                    *)
(***************************************************************************)
MaxRows == 2

(***************************************************************************)
(* Characters.                                                             *)
(***************************************************************************)
UpperChars ==
  <<"A","B","C","D","E","F","G","H","I","J","K","L","M","N","O","P","Q","R",
    "S","T","U","V","W","X","Y","Z","Á","É","Í","Ó","Ú","Ñ">>

LowerChars ==
  <<"a","b","c","d","e","f","g","h","i","j","k","l","m","n","o","p","q","r",
    "s","t","u","v","w","x","y","z","á","é","í","ó","ú","ñ">>

AccentedChars == <<"á","é","í","ó","ú","ñ","Á","É","Í","Ó","Ú","Ñ">>

UnaccentedChars == <<"a","e","i","o","u","n","A","E","I","O","U","N">>

Digits == <<"0","1","2","3","4","5","6","7","8","9">>

\* str.lower() on one character
LowerChar(c) ==
  IF \E i \in 1..Len(UpperChars) : UpperChars[i] = c
  THEN LowerChars[CHOOSE i \in 1..Len(UpperChars) : UpperChars[i] = c]
  ELSE c

\* unicodedata.normalize("NFKD", c) with the combining marks removed
StripAccentChar(c) ==
  IF \E i \in 1..Len(AccentedChars) : AccentedChars[i] = c
  THEN UnaccentedChars[CHOOSE i \in 1..Len(AccentedChars) : AccentedChars[i] = c]
  ELSE c

\* the characters matched by \s and removed by str.strip()
IsSpace(c) == c \in {" ", "\t", "\n"}

IsDigit(c) == \E i \in 1..Len(Digits) : Digits[i] = c

DigitVal(c) == (CHOOSE i \in 1..Len(Digits) : Digits[i] = c) - 1

(***************************************************************************)
(* Text operations.                                                        *)
(***************************************************************************)
Lower(s) == [i \in 1..Len(s) |-> LowerChar(s[i])]

StripAccents(s) == [i \in 1..Len(s) |-> StripAccentChar(s[i])]

RECURSIVE LStrip(_)
LStrip(s) == IF s # <<>> /\ IsSpace(Head(s)) THEN LStrip(Tail(s)) ELSE s

RECURSIVE RStrip(_)
RStrip(s) ==
  IF s # <<>> /\ IsSpace(s[Len(s)]) THEN RStrip(SubSeq(s, 1, Len(s) - 1)) ELSE s

\* str.strip()
Strip(s) == RStrip(LStrip(s))

\* re.sub(r"\s+", " ", s)
RECURSIVE CollapseSpaces(_)
CollapseSpaces(s) ==
  IF s = <<>> THEN <<>>
  ELSE IF IsSpace(Head(s))
       THEN <<" ">> \o CollapseSpaces(LStrip(s))
       ELSE <<Head(s)>> \o CollapseSpaces(Tail(s))

\* sub in s
Contains(s, sub) ==
  \E i \in 1..(Len(s) - Len(sub) + 1) : SubSeq(s, i, i + Len(sub) - 1) = sub

\* s.startswith(p)
StartsWith(s, p) == Len(p) <= Len(s) /\ SubSeq(s, 1, Len(p)) = p

\* the least index at which sub occurs in s, 0 when it does not (str.find + 1)
Find(s, sub) ==
  IF Contains(s, sub)
  THEN CHOOSE i \in 1..(Len(s) - Len(sub) + 1) :
         /\ SubSeq(s, i, i + Len(sub) - 1) = sub
         /\ \A j \in 1..(i - 1) : SubSeq(s, j, j + Len(sub) - 1) # sub
  ELSE 0

\* s.split(sep) for a non-empty separator
RECURSIVE Split(_, _)
Split(s, sep) ==
  LET i == Find(s, sep)
  IN IF i = 0 THEN <<s>>
     ELSE <<SubSeq(s, 1, i - 1)>> \o Split(SubSeq(s, i + Len(sep), Len(s)), sep)

\* sep.join(items)
RECURSIVE Join(_, _)
Join(items, sep) ==
  IF items = <<>> THEN <<>>
  ELSE IF Len(items) = 1 THEN items[1]
       ELSE items[1] \o sep \o Join(Tail(items), sep)

\* re.split(r",\s*", s), the pattern of Series.str.split(',\s*')
RECURSIVE SplitCommaSpaces(_)
SplitCommaSpaces(s) ==
  LET i == Find(s, <<",">>)
  IN IF i = 0 THEN <<s>>
     ELSE <<SubSeq(s, 1, i - 1)>> \o
          SplitCommaSpaces(LStrip(SubSeq(s, i + 1, Len(s))))

\* str(n) of a non-negative integer
RECURSIVE NatChars(_)
NatChars(n) ==
  IF n < 10 THEN <<Digits[n + 1]>>
  ELSE NatChars(n \div 10) \o <<Digits[(n % 10) + 1]>>

IntChars(n) == IF n < 0 THEN <<"-">> \o NatChars(0 - n) ELSE NatChars(n)

(***************************************************************************)
(* Cells.                                                                  *)
(***************************************************************************)
NA == [k |-> "na"]

Num(n) == [k |-> "num", n |-> n]

Str(s) == [k |-> "str", s |-> s]

\* pd.isna(x) / Series.isna()
IsNA(x) == x.k = "na"

\* str(x): the text of a cell; NaN prints as "nan"
StrOf(x) ==
  CASE x.k = "str" -> x.s
    [] x.k = "num" -> IntChars(x.n)
    [] x.k = "ts" -> x.s
    [] OTHER -> <<"n","a","n">>

\* a column of numbers with a missing value is read as float64
ColIsFloat(vals) ==
  /\ \A r \in 1..Len(vals) : vals[r].k \in {"num", "na"}
  /\ \E r \in 1..Len(vals) : vals[r].k = "na"

\* str(x) of a cell of the column vals: in a float64 column 2 prints as "2.0"
StrIn(vals, x) ==
  IF x.k = "num" /\ ColIsFloat(vals) THEN IntChars(x.n) \o <<".", "0">> ELSE StrOf(x)

\* the same without str.strip()
NormalizeTextUnstripped(x) ==
  IF IsNA(x) THEN <<>>
  ELSE CollapseSpaces(Lower(StripAccents(StrOf(x))))

\* unified.py _normalize_text, survey_cleaning.py normalize_text
NormalizeText(x) ==
  IF IsNA(x) THEN <<>>
  ELSE CollapseSpaces(Strip(Lower(StripAccents(StrOf(x)))))

(***************************************************************************)
(* Column labels.  A label is its lower-case, trimmed text together with   *)
(* the casing it is written in ("lower": all lower-case; "sheet": the      *)
(* casing of the survey sheet; "other": any other casing) and whether it   *)
(* carries surrounding whitespace.  Two labels are the same Python string  *)
(* exactly when the records are equal.                                     *)
(***************************************************************************)
Hdr(text) == [text |-> text, form |-> "lower", pad |-> FALSE]

\* the sheet's labels that are written in lower case already
\* (datacleaning.py, col_out)
SheetLowerLabels ==
  {"id", "db", "% mujeres en la distribución", "% mujeres vinculadas"}

\* the label as the survey sheet writes it
SheetHdr(text) ==
  [text |-> text,
   form |-> IF text \in SheetLowerLabels THEN "lower" ELSE "sheet",
   pad |-> FALSE]

\* Index.str.strip()
HdrStrip(h) == [h EXCEPT !.pad = FALSE]

\* Index.str.lower()
HdrLower(h) == [h EXCEPT !.form = "lower"]

\* unified.py DROP_COLS: the labels, all lower-case
DROP_COLS ==
  { "id",
    "db",
    "marca temporal",
    "correo electrónico",
    "teléfono de contacto",
    "ir al fin de la encuesta.",
    "de acuerdo con el tipo de carga que distribuye su empresa, indique máximo 3 tipos en el siguiente listado:",
    "¿el origen de la mercancía que transporta es el valle de aburrá?",
    "por favor, indique el municipio:",
    "por favor, indique cuántas entregas hace en el centro de medellín al día:",
    "por favor, indique el número de establecimientos que surte en el centro de medellín a diario:",
    "¿cuántos pedidos recibe su empresa diariamente que tienen como destino el centro de medellín?",
    "por favor indique la cantidad de vehículos con combustión a diésel (acpm) con los que cuenta su empresa:",
    "por favor indique la cantidad de vehículos con combustión a gasolina con los que cuenta su empresa:",
    "por favor indique la cantidad de vehículos con combustión a gas natural vehicular (gnv) con los que cuenta su empresa:",
    "por favor indique la cantidad de vehículos con motor eléctrico con los que cuenta su empresa:",
    "por favor, indique el rango de edad promedio del parque vehicular de su empresa [modelos anteriores a 1990]",
    "por favor, indique el rango de edad promedio del parque vehicular de su empresa [modelos entre 1991 y 2000]",
    "por favor, indique el rango de edad promedio del parque vehicular de su empresa [modelos entre 2001 y 2010]",
    "por favor, indique el rango de edad promedio del parque vehicular de su empresa [modelos entre 2011 y 2015]",
    "por favor, indique el rango de edad promedio del parque vehicular de su empresa [modelos del 2016 en adelante]",
    "¿cuánto es el rendimiento en galones/kilómetro, de sus vehículos a acpm?",
    "¿cuánto es el rendimiento en galones/kilómetro, de sus vehículos a gasolina?",
    "¿cuánto es el rendimiento en metros cúbicos/kilómetro, de sus vehículos a gnv?",
    "¿cuánto es el rendimiento kilowatt-hora, de sus vehículos eléctricos?",
    "¿cuánto es el costo total por movilizar un camión cargado hacia el centro de medellín?",
    "¿cuántas horas al volante permanece durante un turno de reparto una/un conductora/or en su empresa?",
    "de acuerdo con la siguiente escala, donde 1 es \"muy compleja\" y 5 es \"muy adecuada\" ¿cómo considera la relación de sus conductores con los demás actores viales (peatones, ciclistas, conductores, transporte público) en el espacio público de la zuap?",
    "¿al interior de su empresa se realizan actividades que promuevan la actividad física entre sus calaboradoras/es?",
    "¿qué actividades se realizan?",
    "¿cuántas veces por semana se realizan actividades para promover la actividad física?",
    "¿conoce usted el decreto no 1790 de noviembre 20 de 2012 (decreto de zona amarilla o de cargue y descargue en el centro de la ciudad)?" }

\* unified.py RENAME_MAP as <<source label, target identifier>> pairs
RENAME_MAP ==
  << <<"nombre de la empresa",
       "company_name">>,
     <<"dirección de la empresa",
       "est_address">>,
     <<"por favor indique el número de colaboradores que tiene su empresa o comercio",
       "employees">>,
     <<"¿en su empresa o comercio cuentan con colaboradoras mujeres?",
       "has_female_employees">>,
     <<"por favor indique el número de mujeres que trabajan en su empresa o comercio",
       "female_employees">>,
     <<"de sus empleadas mujeres, ¿cuántas hacen parte de la cadena de distribución del negocio (conducen, reparten domicilios, acompañan las entregas, etc.)?",
       "female_emplo_distri">>,
     <<"% mujeres en la distribución",
       "women_distri_percentage">>,
     <<"de las mujeres vinculadas a la cadena logística de su empresa o comercio ¿cuántas están vinculadas por contrato laboral?",
       "female_distri_vincu">>,
     <<"% mujeres vinculadas",
       "hired_women_percentage">>,
     <<"entre sus colaboradoras mujeres, alguna(s) se identifica(n) con los siguientes grupos poblacionales:",
       "female_popg">>,
     <<"¿acompañan y/o apoyan el proceso formativo de las mujeres que hacen parte de la cadena logística?",
       "female_support">>,
     <<"por favor, indique dentro de la siguientes categorías, cuál se relaciona con la actividad realizada en su comercio:",
       "economic_activity">>,
     <<"de acuerdo al listado señale en orden de importancia las 3 principales actividades comerciales que se desarrollan en su establecimiento:",
       "specific_activity">>,
     <<"productos principales",
       "main_products">>,
     <<"¿su establecimiento cuenta con espacio de bodega o almacenamiento de mercancías o productos?",
       "warehouse">>,
     <<"¿con cuántos espacios de bodega cuenta?",
       "number_warehouse">>,
     <<"¿en qué piso se ubica(n) la(s) bodegas que sirven a su empresa o comercio?",
       "warehouse_floor">>,
     <<"por favor, indique el área de la bodega que sirve a su comercio en metros cuadrados:",
       "warehouse_area">>,
     <<"por favor, indique la altura en metros de la bodega que sirve a su comercio:",
       "warehouse_height">>,
     <<"¿el(los) espacio(s) de bodega están ubicados al interior de la zuap?",
       "zuap_warehouse">>,
     <<"¿en qué municipio se encuentra ubicada la bodega que sirve a su comercio?",
       "warehouse_municipality">>,
     <<"por favor, indique el tipo de bodega con la que cuenta:",
       "warehouse_type">>,
     <<"¿el establecimiento o bodega posee alguno de los siguientes elementos para el cargue y descargue de mercancías?",
       "warehouse_equipement">>,
     <<"por favor, seleccione los días en los cuales recibe materiales, materias primas o productos:",
       "supply_day">>,
     <<"¿cuántas veces por semana abastece su establecimiento?",
       "supply_week">>,
     <<"por favor, indique los horarios durante los cuales realiza las actividades de cargue y descargue de las mercancías:",
       "supply_schedule">>,
     <<"por favor, indique la forma en la que ingresa la mercancía a su comercio o área de bodega:",
       "supply_unloading">>,
     <<"en una escala de 1 a 5, donde 1 es \"muy inseguro\" y 5 \"muy seguro\", ¿considera usted que el proceso de cargue y descargue de mercancías en camión, carro o motocicleta es?",
       "supply_safety_percep">>,
     <<"en una escala de 1 a 5, donde 1 es \"muy inseguro\" y 5 \"muy seguro\", ¿considera usted que el proceso de cargue y descargue de mercancías en bicicleta es?",
       "supply_bic_safety_perception">>,
     <<"¿qué medio realiza para el envío de sus artículos a domicilio?",
       "delivery_transp_mode">>,
     <<"¿cuántos domicilios realiza a diario su establecimiento?",
       "num_deliveries">>,
     <<"¿qué medio realiza para el envío de sus ventas por internet?",
       "online_trans_mode">>,
     <<"¿cuántos envíos de artículos vendidos por internet realiza a diario su establecimiento?",
       "num_online_deliveries">> >>

\* final_cleaning_survey.py col_out: the labels in the casing of the sheet,
\* given by their lower-case text ("id" and "db" are lower-case in the sheet)
col_out ==
  << "id",
     "db",
     "marca temporal",
     "correo electrónico",
     "teléfono de contacto",
     "ir al fin de la encuesta.",
     "nombre de la empresa",
     "de acuerdo con el tipo de carga que distribuye su empresa, indique máximo 3 tipos en el siguiente listado:",
     "¿el origen de la mercancía que transporta es el valle de aburrá?",
     "por favor, indique el municipio:",
     "por favor, indique cuántas entregas hace en el centro de medellín al día:",
     "por favor, indique el número de establecimientos que surte en el centro de medellín a diario:",
     "¿cuántos pedidos recibe su empresa diariamente que tienen como destino el centro de medellín?",
     "por favor indique la cantidad de vehículos con combustión a diésel (acpm) con los que cuenta su empresa:",
     "por favor indique la cantidad de vehículos con combustión a gasolina con los que cuenta su empresa:",
     "por favor indique la cantidad de vehículos con combustión a gas natural vehicular (gnv) con los que cuenta su empresa:",
     "por favor indique la cantidad de vehículos con motor eléctrico con los que cuenta su empresa:",
     "por favor, indique el rango de edad promedio del parque vehicular de su empresa [modelos anteriores a 1990]",
     "por favor, indique el rango de edad promedio del parque vehicular de su empresa [modelos entre 1991 y 2000]",
     "por favor, indique el rango de edad promedio del parque vehicular de su empresa [modelos entre 2001 y 2010]",
     "por favor, indique el rango de edad promedio del parque vehicular de su empresa [modelos entre 2011 y 2015]",
     "por favor, indique el rango de edad promedio del parque vehicular de su empresa [modelos del 2016 en adelante]",
     "¿cuánto es el rendimiento en galones/kilómetro, de sus vehículos a acpm?",
     "¿cuánto es el rendimiento en galones/kilómetro, de sus vehículos a gasolina?",
     "¿cuánto es el rendimiento en metros cúbicos/kilómetro, de sus vehículos a gnv?",
     "¿cuánto es el rendimiento kilowatt-hora, de sus vehículos eléctricos?",
     "¿cuánto es el costo total por movilizar un camión cargado hacia el centro de medellín?",
     "¿cuántas horas al volante permanece durante un turno de reparto una/un conductora/or en su empresa?",
     "de acuerdo con la siguiente escala, donde 1 es \"muy compleja\" y 5 es \"muy adecuada\" ¿cómo considera la relación de sus conductores con los demás actores viales (peatones, ciclistas, conductores, transporte público) en el espacio público de la zuap?",
     "¿al interior de su empresa se realizan actividades que promuevan la actividad física entre sus calaboradoras/es?",
     "¿qué actividades se realizan?",
     "¿cuántas veces por semana se realizan actividades para promover la actividad física?",
     "¿conoce usted el decreto no 1790 de noviembre 20 de 2012 (decreto de zona amarilla o de cargue y descargue en el centro de la ciudad)?" >>

\* survey_cleaning.py drop_cols: the labels, all lower-case
drop_cols ==
  << "db",
     "ir al fin de la encuesta.",
     "de acuerdo con el tipo de carga que distribuye su empresa, indique máximo 3 tipos en el siguiente listado:",
     "¿el origen de la mercancía que transporta es el valle de aburrá?",
     "por favor, indique el municipio:",
     "por favor, indique cuántas entregas hace en el centro de medellín al día:",
     "por favor, indique el número de establecimientos que surte en el centro de medellín a diario:",
     "¿cuántos pedidos recibe su empresa diariamente que tienen como destino el centro de medellín?",
     "por favor indique la cantidad de vehículos con combustión a diésel (acpm) con los que cuenta su empresa:",
     "por favor indique la cantidad de vehículos con combustión a gasolina con los que cuenta su empresa:",
     "por favor indique la cantidad de vehículos con combustión a gas natural vehicular (gnv) con los que cuenta su empresa:",
     "por favor indique la cantidad de vehículos con motor eléctrico con los que cuenta su empresa:",
     "por favor, indique el rango de edad promedio del parque vehicular de su empresa [modelos anteriores a 1990]",
     "por favor, indique el rango de edad promedio del parque vehicular de su empresa [modelos entre 1991 y 2000]",
     "por favor, indique el rango de edad promedio del parque vehicular de su empresa [modelos entre 2001 y 2010]",
     "por favor, indique el rango de edad promedio del parque vehicular de su empresa [modelos entre 2011 y 2015]",
     "por favor, indique el rango de edad promedio del parque vehicular de su empresa [modelos del 2016 en adelante]",
     "¿cuánto es el rendimiento en galones/kilómetro, de sus vehículos a acpm?",
     "¿cuánto es el rendimiento en galones/kilómetro, de sus vehículos a gasolina?",
     "¿cuánto es el rendimiento en metros cúbicos/kilómetro, de sus vehículos a gnv?",
     "¿cuánto es el rendimiento kilowatt-hora, de sus vehículos eléctricos?",
     "¿cuánto es el costo total por movilizar un camión cargado hacia el centro de medellín?",
     "¿cuántas horas al volante permanece durante un turno de reparto una/un conductora/or en su empresa?",
     "de acuerdo con la siguiente escala, donde 1 es \"muy compleja\" y 5 es \"muy adecuada\" ¿cómo considera la relación de sus conductores con los demás actores viales (peatones, ciclistas, conductores, transporte público) en el espacio público de la zuap?",
     "¿al interior de su empresa se realizan actividades que promuevan la actividad física entre sus calaboradoras/es?",
     "¿qué actividades se realizan?",
     "¿cuántas veces por semana se realizan actividades para promover la actividad física?",
     "¿conoce usted el decreto no 1790 de noviembre 20 de 2012 (decreto de zona amarilla o de cargue y descargue en el centro de la ciudad)?" >>

\* final_cleaning_survey.py col_name as <<source label, target identifier>> pairs
col_name ==
  << <<"dirección de la empresa",
       "est_address">>,
     <<"por favor indique el número de colaboradores que tiene su empresa o comercio",
       "employees">>,
     <<"por favor indique el número de mujeres que trabajan en su empresa o comercio",
       "female_employees">>,
     <<"de sus empleadas mujeres, ¿cuántas hacen parte de la cadena de distribución del negocio (conducen, reparten domicilios, acompañan las entregas, etc.)?",
       "female_emplo_distri">>,
     <<"de las mujeres vinculadas a la cadena logística de su empresa o comercio ¿cuántas están vinculadas por contrato laboral?",
       "female_distri_vincu">>,
     <<"entre sus colaboradoras mujeres, alguna(s) se identifica(n) con los siguientes grupos poblacionales:",
       "female_popg">>,
     <<"¿acompañan y/o apoyan el proceso formativo de las mujeres que hacen parte de la cadena logística?",
       "female_support">>,
     <<"por favor, indique dentro de la siguientes categorías, cuál se relaciona con la actividad realizada en su comercio:",
       "economic_activity">>,
     <<"de acuerdo al listado señale en orden de importancia las 3 principales actividades comerciales que se desarrollan en su establecimiento:",
       "specific_activity">>,
     <<"productos principales",
       "main_products">>,
     <<"¿su establecimiento cuenta con espacio de bodega o almacenamiento de mercancías o productos?",
       "warehouse">>,
     <<"¿con cuántos espacios de bodega cuenta?",
       "number_warehouse">>,
     <<"¿en qué piso se ubica(n) la(s) bodegas que sirven a su empresa o comercio?",
       "warehouse_floor">>,
     <<"por favor, indique el área de la bodega que sirve a su comercio en metros cuadrados:",
       "warehouse_area">>,
     <<"por favor, indique la altura en metros de la bodega que sirve a su comercio:",
       "warehouse_height">>,
     <<"¿el(los) espacio(s) de bodega están ubicados al interior de la zuap?",
       "zuap_warehouse">>,
     <<"¿en qué municipio se encuentra ubicada la bodega que sirve a su comercio?",
       "warehouse_municipality">>,
     <<"por favor, indique el tipo de bodega con la que cuenta:",
       "warehouse_type">>,
     <<"por favor, seleccione los días en los cuales recibe materiales, materias primas o productos:",
       "supply_day">>,
     <<"¿cuántas veces por semana abastece su establecimiento?",
       "supply_week">>,
     <<"por favor, indique los horarios durante los cuales realiza las actividades de cargue y descargue de las mercancías:",
       "supply_schedule">>,
     <<"por favor, indique la forma en la que ingresa la mercancía a su comercio o área de bodega:",
       "supply_unloading">>,
     <<"en una escala de 1 a 5, donde 1 es \"muy inseguro\" y 5 \"muy seguro\", ¿considera usted que el proceso de cargue y descargue de mercancías en camión, carro o motocicleta es?",
       "supply_safety_percep">>,
     <<"en una escala de 1 a 5, donde 1 es \"muy inseguro\" y 5 \"muy seguro\", ¿considera usted que el proceso de cargue y descargue de mercancías en bicicleta es?",
       "supply_bic_safety_perception">>,
     <<"¿el establecimiento o bodega posee alguno de los siguientes elementos para el cargue y descargue de mercancías?",
       "warehouse_equipement">>,
     <<"¿qué medio realiza para el envío de sus artículos a domicilio?",
       "delivery_transp_mode">>,
     <<"¿cuántos domicilios realiza a diario su establecimiento?",
       "num_deliveries">>,
     <<"¿qué medio realiza para el envío de sus ventas por internet?",
       "online_trans_mode">>,
     <<"¿cuántos envíos de artículos vendidos por internet realiza a diario su establecimiento?",
       "num_online_deliveries">>,
     <<"% mujeres en la distribución",
       "women_distri_percentage">>,
     <<"% mujeres vinculadas",
       "hired_women_percentage">> >>

\* survey_cleaning.py rename_map as <<source label, target identifier>> pairs
rename_map ==
  << <<"marca temporal",
       "timestamp">>,
     <<"nombre de la empresa",
       "company_name">>,
     <<"correo electrónico",
       "email">>,
     <<"dirección de la empresa",
       "est_address">>,
     <<"teléfono de contacto",
       "contact_phone">>,
     <<"por favor indique el número de colaboradores que tiene su empresa o comercio",
       "employees">>,
     <<"¿en su empresa o comercio cuentan con colaboradoras mujeres?",
       "has_female_employees">>,
     <<"por favor indique el número de mujeres que trabajan en su empresa o comercio",
       "female_employees">>,
     <<"porcentaje mujeres",
       "female_percentage">>,
     <<"de sus empleadas mujeres, ¿cuántas hacen parte de la cadena de distribución del negocio (conducen, reparten domicilios, acompañan las entregas, etc.)?",
       "female_in_distribution">>,
     <<"% mujeres en la distribución",
       "pct_female_in_distribution">>,
     <<"de las mujeres vinculadas a la cadena logística de su empresa o comercio ¿cuántas están vinculadas por contrato laboral?",
       "female_with_contract">>,
     <<"% mujeres vinculadas",
       "pct_female_with_contract">>,
     <<"entre sus colaboradoras mujeres, alguna(s) se identifica(n) con los siguientes grupos poblacionales:",
       "female_population_groups">>,
     <<"¿acompañan y/o apoyan el proceso formativo de las mujeres que hacen parte de la cadena logística?",
       "female_support_roles">>,
     <<"por favor, indique dentro de la siguientes categorías, cuál se relaciona con la actividad realizada en su comercio:",
       "economic_activity">>,
     <<"de acuerdo al listado señale en orden de importancia las 3 principales actividades comerciales que se desarrollan en su establecimiento:",
       "top_3_activities">>,
     <<"productos principales",
       "main_products">>,
     <<"¿su establecimiento cuenta con espacio de bodega o almacenamiento de mercancías o productos?",
       "has_warehouse_space">>,
     <<"¿con cuántos espacios de bodega cuenta?",
       "warehouse_count">>,
     <<"¿en qué piso se ubica(n) la(s) bodegas que sirven a su empresa o comercio?",
       "warehouse_floor">>,
     <<"por favor, indique el área de la bodega que sirve a su comercio en metros cuadrados:",
       "warehouse_area_m2">>,
     <<"por favor, indique la altura en metros de la bodega que sirve a su comercio:",
       "warehouse_height_m">>,
     <<"¿el(los) espacio(s) de bodega están ubicados al interior de la zuap?",
       "warehouse_within_zuap">>,
     <<"¿en qué municipio se encuentra ubicada la bodega que sirve a su comercio?",
       "warehouse_municipality">>,
     <<"por favor, indique el tipo de bodega con la que cuenta:",
       "warehouse_type">>,
     <<"por favor, seleccione los días en los cuales recibe materiales, materias primas o productos:",
       "supply_day">>,
     <<"¿cuántas veces por semana abastece su establecimiento?",
       "supply_frequency_per_week">>,
     <<"por favor, indique los horarios durante los cuales realiza las actividades de cargue y descargue de las mercancías:",
       "loading_schedule">>,
     <<"por favor, indique la forma en la que ingresa la mercancía a su comercio o área de bodega:",
       "unloading_method">>,
     <<"en una escala de 1 a 5, donde 1 es \"muy inseguro\" y 5 \"muy seguro\", ¿considera usted que el proceso de cargue y descargue de mercancías en camión, carro o motocicleta es?",
       "safety_perception_motorized">>,
     <<"en una escala de 1 a 5, donde 1 es \"muy inseguro\" y 5 \"muy seguro\", ¿considera usted que el proceso de cargue y descargue de mercancías en bicicleta es?",
       "safety_perception_bicycle">>,
     <<"¿el establecimiento o bodega posee alguno de los siguientes elementos para el cargue y descargue de mercancías?",
       "loading_equipment">>,
     <<"¿qué medio realiza para el envío de sus artículos a domicilio?",
       "delivery_modes">>,
     <<"¿cuántos domicilios realiza a diario su establecimiento?",
       "daily_delivery_count">>,
     <<"¿qué medio realiza para el envío de sus ventas por internet?",
       "online_delivery_modes">>,
     <<"¿cuántos envíos de artículos vendidos por internet realiza a diario su establecimiento?",
       "daily_online_delivery_count">> >>

SeqToSet(s) == {s[i] : i \in 1..Len(s)}

\* DataFrame.rename(columns=mapping) on one label: a label that is no key of
\* the mapping is left as it is
RenameWith(mapping, h) ==
  IF \E i \in 1..Len(mapping) : Hdr(mapping[i][1]) = h
  THEN Hdr(mapping[CHOOSE i \in 1..Len(mapping) : Hdr(mapping[i][1]) = h][2])
  ELSE h

\* rename_lower = {k.lower(): v for k, v in RENAME_MAP.items()}
rename_lower(h) == RenameWith(RENAME_MAP, h)

RenameKeys == {RENAME_MAP[i][1] : i \in 1..Len(RENAME_MAP)}

RenameTargets == {RENAME_MAP[i][2] : i \in 1..Len(RENAME_MAP)}

(***************************************************************************)
(* Tables.  A DataFrame is its column labels, in order, its rows, each row  *)
(* the cells in column order, and the index label of every row; cats holds *)
(* the category list of every column cast to an explicit CategoricalDtype. *)
(***************************************************************************)
NoCats == [c \in {} |-> <<>>]

\* a table as it is read: the index is 0, 1, 2, ...
Frame(columns, rows) ==
  [columns |-> columns, rows |-> rows, cats |-> NoCats,
   index |-> [i \in 1..Len(rows) |-> i - 1]]

\* col in df.columns
HasCol(df, h) == \E i \in 1..Len(df.columns) : df.columns[i] = h

ColIndex(df, h) ==
  CHOOSE i \in 1..Len(df.columns) :
    df.columns[i] = h /\ \A j \in 1..(i - 1) : df.columns[j] # h

\* df[h]
Col(df, h) == [r \in 1..Len(df.rows) |-> df.rows[r][ColIndex(df, h)]]

\* df[h] = vals: overwrite the column, or append it as the last column
SetCol(df, h, vals) ==
  IF HasCol(df, h)
  THEN [df EXCEPT !.rows =
          [r \in 1..Len(df.rows) |->
             [df.rows[r] EXCEPT ![ColIndex(df, h)] = vals[r]]]]
  ELSE [df EXCEPT !.columns = Append(df.columns, h),
                  !.rows = [r \in 1..Len(df.rows) |-> Append(df.rows[r], vals[r])]]

\* for col in cols: if col in df.columns: df[col] = df[col].map(F)
MapCols(df, cols, F(_)) ==
  [df EXCEPT !.rows =
     [r \in 1..Len(df.rows) |->
        [i \in 1..Len(df.columns) |->
           IF \E c \in SeqToSet(cols) : df.columns[i] = Hdr(c)
           THEN F(df.rows[r][i])
           ELSE df.rows[r][i]]]]

\* the positions i of a sequence of booleans with keep[i], in order
RECURSIVE KeptPositions(_, _)
KeptPositions(keep, i) ==
  IF i > Len(keep) THEN <<>>
  ELSE (IF keep[i] THEN <<i>> ELSE <<>>) \o KeptPositions(keep, i + 1)

\* df.drop(columns=[c for c in df.columns if Gone(c)])
DropColumns(df, Gone(_)) ==
  LET idx == KeptPositions([i \in 1..Len(df.columns) |-> ~Gone(df.columns[i])], 1)
  IN [df EXCEPT !.columns = [i \in 1..Len(idx) |-> df.columns[idx[i]]],
                !.rows = [r \in 1..Len(df.rows) |->
                            [i \in 1..Len(idx) |-> df.rows[r][idx[i]]]]]

\* DataFrame.drop_duplicates(): the first of every group of equal rows is
\* kept under its index label, missing cells comparing equal
drop_duplicates(df) ==
  LET keep == [i \in 1..Len(df.rows) |-> ~\E j \in 1..(i - 1) : df.rows[j] = df.rows[i]]
      idx == KeptPositions(keep, 1)
  IN [df EXCEPT !.rows = [i \in 1..Len(idx) |-> df.rows[idx[i]]],
                !.index = [i \in 1..Len(idx) |-> df.index[idx[i]]]]

(***************************************************************************)
(* unified.py clean_survey, section by section.                            *)
(***************************************************************************)
\* 3.2 standardise headers: df.columns.str.strip().str.lower()
StandardiseHeaders(df) ==
  [df EXCEPT !.columns = [i \in 1..Len(df.columns) |-> HdrLower(HdrStrip(df.columns[i]))]]

\* 3.3 drop non-informative columns (errors="ignore")
DropNonInformative(df) ==
  LET InDropLower(h) == \E d \in DROP_COLS : Hdr(d) = h
  IN DropColumns(df, InDropLower)

\* 3.4 rename to concise English identifiers
RenameColumns(df) ==
  [df EXCEPT !.columns = [i \in 1..Len(df.columns) |-> rename_lower(df.columns[i])]]

\* x.strip() if isinstance(x, str) else x
StripCell(x) == IF x.k = "str" THEN Str(Strip(x.s)) ELSE x

\* 3.5 basic tidying: strip the strings of every column, then drop the
\* duplicate rows.  ("marca temporal" is in DROP_COLS, so the timestamp
\* branch of the code never runs: the column is gone after 3.3.)
BasicTidying(df) ==
  drop_duplicates(
    [df EXCEPT !.rows =
       [r \in 1..Len(df.rows) |->
          [i \in 1..Len(df.columns) |-> StripCell(df.rows[r][i])]]])

(***************************************************************************)
(* Text constants of the code.                                             *)
(***************************************************************************)
t_1_vez_por_semana == <<"1"," ","v","e","z"," ","p","o","r"," ","s","e","m","a","n","a">>
t_2 == <<"2">>
t_5 == <<"5">>
t_6_o_mas == <<"6"," ","o"," ","m","á","s">>
t_la_periodicidad_es_quincenal == <<"l","a"," ","p","e","r","i","o","d","i","c","i","d","a","d"," ","e","s"," ","q","u","i","n","c","e","n","a","l">>
t_la_periodicidad_es_mensual == <<"l","a"," ","p","e","r","i","o","d","i","c","i","d","a","d"," ","e","s"," ","m","e","n","s","u","a","l">>
(***************************************************************************)
(* 3.6 type conversions.  Numbers of the model are integers: the inputs    *)
(* drawn below hold no text with a fractional part.                        *)
(***************************************************************************)
\* text that pd.to_numeric parses as an integer
IsIntText(s) ==
  LET d == IF s # <<>> /\ Head(s) = "-" THEN Tail(s) ELSE s
  IN d # <<>> /\ \A i \in 1..Len(d) : IsDigit(d[i])

RECURSIVE NatValue(_)
NatValue(d) ==
  IF d = <<>> THEN 0
  ELSE 10 * NatValue(SubSeq(d, 1, Len(d) - 1)) + DigitVal(d[Len(d)])

IntValue(s) == IF Head(s) = "-" THEN 0 - NatValue(Tail(s)) ELSE NatValue(s)

\* pd.to_numeric(x, errors="coerce") on one cell
to_numeric_coerce(x) ==
  CASE x.k = "str" -> IF IsIntText(x.s) THEN Num(IntValue(x.s)) ELSE NA
    [] OTHER -> x

NUMERIC_COLS ==
  <<"number_warehouse", "warehouse_area", "warehouse_height", "num_deliveries",
    "num_online_deliveries", "employees", "female_employees",
    "female_emplo_distri", "female_distri_vincu">>

PCT_COLS == <<"women_distri_percentage", "hired_women_percentage">>

\* a float with two decimals, in hundredths, and the infinities of a
\* division by zero
Dec(h) == [k |-> "dec", h |-> h]

Inf(sign) == [k |-> "inf", sign |-> sign]

\* round(q / d) of integers, d > 0, halves to the even neighbour
RoundDiv(q, d) ==
  LET f == IF q >= 0 THEN q \div d ELSE 0 - ((0 - q + d - 1) \div d)
      r == q - f * d
  IN IF 2 * r < d THEN f
     ELSE IF 2 * r > d THEN f + 1
     ELSE IF f % 2 = 0 THEN f ELSE f + 1

\* (a / b * 100).round(2) on one row: float division never raises
Percentage(a, b) ==
  IF a.k # "num" \/ b.k # "num" THEN NA
  ELSE IF b.n = 0
       THEN (IF a.n = 0 THEN NA ELSE Inf(IF a.n > 0 THEN 1 ELSE 0 - 1))
       ELSE Dec(IF b.n > 0 THEN RoundDiv(10000 * a.n, b.n)
                           ELSE RoundDiv(0 - 10000 * a.n, 0 - b.n))

\* df[new] = (df[a] / df[b] * 100).round(2) when both columns are there
DerivePercentage(df, new, a, b) ==
  IF HasCol(df, Hdr(a)) /\ HasCol(df, Hdr(b))
  THEN SetCol(df, Hdr(new),
              [r \in 1..Len(df.rows) |-> Percentage(Col(df, Hdr(a))[r], Col(df, Hdr(b))[r])])
  ELSE df

\* Series.astype(CategoricalDtype(categories)): a value that is no category
\* becomes missing
AsCategory(x, categories) == IF x \in SeqToSet(categories) THEN x ELSE NA

\* likert = CategoricalDtype(categories=[1, 2, 3, 4, 5], ordered=True)
likert == <<Num(1), Num(2), Num(3), Num(4), Num(5)>>

LIKERT_COLS == <<"supply_safety_percep", "supply_bic_safety_perception">>

\* pd.to_numeric(df[col], errors="coerce").astype(likert) on one cell
CoerceLikert(x) == AsCategory(to_numeric_coerce(x), likert)

\* re.sub(r"[^0-9.-]", "", str(x))
FloorDigits(x) ==
  LET s == StrOf(x)
      keep == [i \in 1..Len(s) |-> IsDigit(s[i]) \/ s[i] \in {".", "-"}]
      idx == KeptPositions(keep, 1)
  IN [i \in 1..Len(idx) |-> s[idx[i]]]

\* whether float(t) accepts the text: an optional sign, digits, at most one
\* point, at least one digit
FloatParses(t) ==
  LET u == IF t # <<>> /\ Head(t) = "-" THEN Tail(t) ELSE t
  IN /\ \A i \in 1..Len(u) : IsDigit(u[i]) \/ u[i] = "."
     /\ Cardinality({i \in 1..Len(u) : u[i] = "."}) <= 1
     /\ \E i \in 1..Len(u) : IsDigit(u[i])

\* float(t) as a fraction: mant / 10^dec
FloatOf(t) ==
  LET neg == t # <<>> /\ Head(t) = "-"
      u == IF neg THEN Tail(t) ELSE t
      dot == Find(u, <<".">>)
      digs == IF dot = 0 THEN u ELSE SubSeq(u, 1, dot - 1) \o SubSeq(u, dot + 1, Len(u))
  IN [mant |-> IF neg THEN 0 - NatValue(digs) ELSE NatValue(digs),
      dec |-> IF dot = 0 THEN 0 ELSE Len(u) - dot]

RECURSIVE Pow10(_)
Pow10(n) == IF n = 0 THEN 1 ELSE 10 * Pow10(n - 1)

FloatLess(a, b) == a.mant * Pow10(b.dec) < b.mant * Pow10(a.dec)

\* the sort key of a floor: float(re.sub(...) or 0); ValueError when the
\* remaining text is no float
FloorKeyRaises(x) == FloorDigits(x) # <<>> /\ ~FloatParses(FloorDigits(x))

FloorKey(x) ==
  IF FloorDigits(x) = <<>> THEN [mant |-> 0, dec |-> 0] ELSE FloatOf(FloorDigits(x))

\* Series.dropna().unique(): the values in order of first appearance
RECURSIVE Unique(_, _)
Unique(vals, i) ==
  IF i > Len(vals) THEN <<>>
  ELSE (IF IsNA(vals[i]) \/ \E j \in 1..(i - 1) : vals[j] = vals[i]
        THEN <<>> ELSE <<vals[i]>>) \o Unique(vals, i + 1)

\* insert x after every element whose key is not greater (a stable sort)
RECURSIVE InsertByKey(_, _)
InsertByKey(sorted, x) ==
  IF sorted = <<>> THEN <<x>>
  ELSE IF FloatLess(FloorKey(x), FloorKey(Head(sorted)))
       THEN <<x>> \o sorted
       ELSE <<Head(sorted)>> \o InsertByKey(Tail(sorted), x)

\* sorted(values, key=FloorKey)
RECURSIVE SortedByFloorKey(_)
SortedByFloorKey(vals) ==
  IF vals = <<>> THEN <<>>
  ELSE InsertByKey(SortedByFloorKey(SubSeq(vals, 1, Len(vals) - 1)), vals[Len(vals)])

\* with its categories recorded, the column keeps its values: each is a category
WithCats(df, h, categories) ==
  [df EXCEPT !.cats = [c \in DOMAIN df.cats \cup {h} |->
                         IF c = h THEN categories ELSE df.cats[c]]]

FloorsRaise(df) ==
  /\ HasCol(df, Hdr("warehouse_floor"))
  /\ \E r \in 1..Len(df.rows) :
       LET x == Col(df, Hdr("warehouse_floor"))[r] IN ~IsNA(x) /\ FloorKeyRaises(x)

\* floors as ordered categorical
OrderFloors(df) ==
  IF HasCol(df, Hdr("warehouse_floor"))
  THEN WithCats(df, Hdr("warehouse_floor"),
                SortedByFloorKey(Unique(Col(df, Hdr("warehouse_floor")), 1)))
  ELSE df

\* unified.py freq_map of clean_survey, as <<key, value>> pairs
freq_map ==
  << <<t_1_vez_por_semana, 1>>, <<t_2, 2>>, <<t_5, 5>>, <<t_6_o_mas, 6>>,
     <<t_la_periodicidad_es_quincenal, 2>>, <<t_la_periodicidad_es_mensual, 1>> >>

\* Series.map(mapping) on one value: missing when the value is no key
MapLookup(mapping, key) ==
  IF \E i \in 1..Len(mapping) : mapping[i][1] = key
  THEN Num(mapping[CHOOSE i \in 1..Len(mapping) : mapping[i][1] = key][2])
  ELSE NA

\* CategoricalDtype(categories=[1, 2, 5, 6], ordered=True)
freq_categories == <<Num(1), Num(2), Num(5), Num(6)>>

\* .fillna(0).astype(int)
FillZero(x) == IF IsNA(x) THEN Num(0) ELSE x

\* the same without the final cast to the ordered categories 1, 2, 5, 6
SupplyFrequencyNumUncast(vals, x) ==
  FillZero(MapLookup(freq_map, Lower(StrIn(vals, x))))

\* df["supply_week"].map(str).str.lower().map(freq_map).fillna(0).astype(int)
\*   .astype(CategoricalDtype(categories=[1, 2, 5, 6], ordered=True))
SupplyFrequencyNum(vals, x) ==
  AsCategory(FillZero(MapLookup(freq_map, Lower(StrIn(vals, x)))), freq_categories)

AddSupplyFrequency(df) ==
  IF HasCol(df, Hdr("supply_week"))
  THEN WithCats(
         SetCol(df, Hdr("supply_frequency_num"),
                [r \in 1..Len(df.rows) |->
                   SupplyFrequencyNum(Col(df, Hdr("supply_week")),
                                      Col(df, Hdr("supply_week"))[r])]),
         Hdr("supply_frequency_num"), freq_categories)
  ELSE df

CAT_COLS ==
  <<"main_products", "warehouse", "zuap_warehouse", "warehouse_municipality",
    "warehouse_type", "economic_activity", "female_support">>

MULTI_TEXT ==
  <<"specific_activity", "supply_day", "supply_schedule", "supply_unloading",
    "warehouse_equipement", "delivery_transp_mode", "online_trans_mode", "female_popg">>

\* for col in cols: if col in df.columns: df[col] = df[col].astype(str)
AsTypeStr(df, cols) ==
  [df EXCEPT !.rows =
     [r \in 1..Len(df.rows) |->
        [i \in 1..Len(df.columns) |->
           IF \E c \in SeqToSet(cols) : df.columns[i] = Hdr(c)
           THEN Str(StrIn([q \in 1..Len(df.rows) |-> df.rows[q][i]], df.rows[r][i]))
           ELSE df.rows[r][i]]]]

RECURSIVE WithLikertCats(_, _)
WithLikertCats(df, cols) ==
  IF cols = <<>> THEN df
  ELSE WithLikertCats(IF HasCol(df, Hdr(Head(cols)))
                      THEN WithCats(df, Hdr(Head(cols)), likert) ELSE df,
                      Tail(cols))

\* 3.6 as a whole, for a table on which the floor sort does not raise.
\* Casting a column of CAT_COLS to "category" leaves its values as they are.
TypeConversions(df) ==
  LET d1 == MapCols(df, NUMERIC_COLS, to_numeric_coerce)
      d2 == MapCols(d1, PCT_COLS, to_numeric_coerce)
      d3 == DerivePercentage(d2, "female_percentage", "female_employees", "employees")
      d4 == DerivePercentage(d3, "pct_female_in_distribution",
                             "female_emplo_distri", "female_employees")
      d5 == DerivePercentage(d4, "pct_female_with_contract",
                             "female_distri_vincu", "female_emplo_distri")
      d6 == WithLikertCats(MapCols(d5, LIKERT_COLS, CoerceLikert), LIKERT_COLS)
      d7 == OrderFloors(d6)
      d8 == AddSupplyFrequency(d7)
  IN AsTypeStr(d8, MULTI_TEXT)

(***************************************************************************)
(* 3.7 basic normalisation.                                                *)
(***************************************************************************)
\* YESNO = {"sí": "yes", "si": "yes", "no": "no", "no aplica": pd.NA}
YesNoReplace(x) ==
  CASE x = Str(<<"s","í">>) -> Str(<<"y","e","s">>)
    [] x = Str(<<"s","i">>) -> Str(<<"y","e","s">>)
    [] x = Str(<<"n","o">>) -> Str(<<"n","o">>)
    [] x = Str(<<"n","o"," ","a","p","l","i","c","a">>) -> NA
    [] OTHER -> x

\* Series.map(_normalize_text) on a column that is categorical already: the
\* categories are mapped, and whether the mapper is also called on a missing
\* value depends on the pandas release (seesNaN: it is, and NaN becomes "").
MapNormalizeCategorical(x, seesNaN) ==
  IF IsNA(x) /\ ~seesNaN THEN NA ELSE Str(NormalizeText(x))

BasicNormalisation(df, seesNaN) ==
  LET NormYesNo(x) == YesNoReplace(MapNormalizeCategorical(x, seesNaN))
      Norm(x) == MapNormalizeCategorical(x, seesNaN)
  IN MapCols(MapCols(df, <<"zuap_warehouse">>, NormYesNo), <<"main_products">>, Norm)

(***************************************************************************)
(* 3.8 economic activity split.                                            *)
(***************************************************************************)
main_cats == <<<<"V","e","n","t","a"," ","a","l"," ","d","e","t","a","l","l","e">>, <<"F","a","b","r","i","c","a","n","t","e">>, <<"P","r","o","v","e","e","d","o","r">>, <<"V","e","n","t","a","s"," ","p","o","r"," ","i","n","t","e","r","n","e","t">>>>

\* [A-ZÁÉÍÓÚÑ]
IsSplitCapital(c) == \E i \in 1..Len(UpperChars) : UpperChars[i] = c

\* re.findall(r"([A-ZÁÉÍÓÚÑ][^A-ZÁÉÍÓÚÑ]*)", rest): the pieces that start at
\* each capital letter and run to the next one
RECURSIVE CapitalPieces(_)
CapitalPieces(rest) ==
  IF rest = <<>> THEN <<>>
  ELSE IF ~IsSplitCapital(Head(rest)) THEN CapitalPieces(Tail(rest))
  ELSE LET n == IF \E i \in 2..Len(rest) : IsSplitCapital(rest[i])
                THEN (CHOOSE i \in 2..Len(rest) :
                        IsSplitCapital(rest[i]) /\ \A j \in 2..(i - 1) : ~IsSplitCapital(rest[j]))
                ELSE Len(rest) + 1
       IN <<SubSeq(rest, 1, n - 1)>> \o CapitalPieces(SubSeq(rest, n, Len(rest)))

\* _split_econ(x): <<econ_main, econ_sub1, econ_sub2>>
_split_econ(x) ==
  IF IsNA(x) THEN <<NA, NA, NA>>
  ELSE IF ~\E i \in 1..Len(main_cats) : StartsWith(x.s, main_cats[i])
  THEN <<x, NA, NA>>
  ELSE LET main == main_cats[CHOOSE i \in 1..Len(main_cats) :
                     /\ StartsWith(x.s, main_cats[i])
                     /\ \A j \in 1..(i - 1) : ~StartsWith(x.s, main_cats[j])]
           rest == Strip(SubSeq(x.s, Len(main) + 1, Len(x.s)))
           parts == CapitalPieces(rest)
       IN IF rest = <<>> THEN <<Str(main), NA, NA>>
          ELSE <<Str(main),
                 IF Len(parts) >= 1 THEN Str(Strip(parts[1])) ELSE NA,
                 IF Len(parts) >= 2 THEN Str(Strip(parts[2])) ELSE NA>>

\* econ_split = df["economic_activity"].astype(str).apply(_split_econ)
EconSplit(df) ==
  IF HasCol(df, Hdr("economic_activity"))
  THEN LET parts == [r \in 1..Len(df.rows) |->
                       _split_econ(Str(StrIn(Col(df, Hdr("economic_activity")),
                                             Col(df, Hdr("economic_activity"))[r])))]
           e1 == SetCol(df, Hdr("econ_main"), [r \in 1..Len(df.rows) |-> parts[r][1]])
           e2 == SetCol(e1, Hdr("econ_sub1"), [r \in 1..Len(df.rows) |-> parts[r][2]])
       IN SetCol(e2, Hdr("econ_sub2"), [r \in 1..Len(df.rows) |-> parts[r][3]])
  ELSE df

(***************************************************************************)
(* final_cleaning_survey.py dataframe_cleaning.                            *)
(***************************************************************************)
\* df.drop(col_out, axis=1) raises KeyError when a label of col_out is no
\* column of the sheet: the labels are looked up as they are written
ColOutMissing(df) == \E i \in 1..Len(col_out) : ~HasCol(df, SheetHdr(col_out[i]))

\* df.drop(col_out, axis=1) on a sheet that has every label
DropColOut(df) ==
  LET InColOut(h) == \E i \in 1..Len(col_out) : SheetHdr(col_out[i]) = h
  IN DropColumns(df, InColOut)

\* df.columns.str.lower(); rename(columns=col_name); main_products normalised
\* (the column is of dtype object here: _normalize_text sees every cell)
RenameAndNormalise(df) ==
  LET lowered == [df EXCEPT !.columns = [i \in 1..Len(df.columns) |-> HdrLower(df.columns[i])]]
      renamed == [lowered EXCEPT !.columns =
                    [i \in 1..Len(lowered.columns) |-> RenameWith(col_name, lowered.columns[i])]]
      Norm(x) == Str(NormalizeText(x))
  IN MapCols(renamed, <<"main_products">>, Norm)

(***************************************************************************)
(* survey_cleaning.py dataframe_cleaning and the type adjustment (3.1-3.7) *)
(* that the script runs on its result.                                     *)
(***************************************************************************)
Ts(s) == [k |-> "ts", s |-> s]

\* text of the form dddd-dd-dd
IsDateText(s) ==
  /\ Len(s) = 10
  /\ \A i \in 1..10 : IF i \in {5, 8} THEN s[i] = "-" ELSE IsDigit(s[i])

\* pd.to_datetime(x, errors="coerce") on one cell; a number counts the
\* nanoseconds since the epoch
to_datetime_coerce(x) ==
  CASE x.k = "ts" -> x
    [] x.k = "str" -> IF IsDateText(x.s) THEN Ts(x.s) ELSE NA
    [] x.k = "num" -> Ts(<<"1","9","7","0","-","0","1","-","0","1","+">> \o IntChars(x.n))
    [] OTHER -> NA

\* the whole of dataframe_cleaning(path)
SurveyDataframeCleaning(df) ==
  LET d1 == StandardiseHeaders(df)
      d2 == [d1 EXCEPT !.rows =
               [r \in 1..Len(d1.rows) |->
                  [i \in 1..Len(d1.columns) |-> StripCell(d1.rows[r][i])]]]
      d3 == MapCols(d2, <<"marca temporal">>, to_datetime_coerce)
      d4 == drop_duplicates(d3)
      InDropCols(h) == \E i \in 1..Len(drop_cols) : Hdr(drop_cols[i]) = h
      d5 == DropColumns(d4, InDropCols)
  IN [d5 EXCEPT !.columns = [i \in 1..Len(d5.columns) |-> RenameWith(rename_map, d5.columns[i])]]

categorical__nominal_cols ==
  <<"main_products", "has_warehouse_space", "warehouse_within_zuap",
    "warehouse_municipality", "warehouse_type", "economic_activity",
    "female_support_roles">>

multi_col_text ==
  <<"top_3_activities", "supply_day", "loading_schedule", "unloading_method",
    "loading_equipment", "delivery_modes", "online_delivery_modes",
    "female_population_groups">>

survey_likert_cols == <<"safety_perception_motorized", "safety_perception_bicycle">>

num_cols ==
  <<"warehouse_count", "warehouse_area_m2", "warehouse_height_m",
    "daily_delivery_count", "daily_online_delivery_count", "employees",
    "female_employees", "female_in_distribution", "female_with_contract">>

survey_pct_cols ==
  <<"female_percentage", "pct_female_in_distribution", "pct_female_with_contract">>

descriptive_cols == <<"email", "company_name", "est_address", "contact_phone">>

\* df_clean[col] raises KeyError when col is no column
AnyMissing(df, cols) == \E c \in SeqToSet(cols) : ~HasCol(df, Hdr(c))

\* float(x), the sort key of sorted(..., key=float): ValueError on text that
\* is no number
FloatRaises(x) == x.k = "str" /\ ~FloatParses(Strip(x.s))

\* Series.astype(float) raises ValueError when a cell is text that is no number
AsFloatRaises(df, cols) ==
  \E c \in SeqToSet(cols) : \E r \in 1..Len(df.rows) : FloatRaises(Col(df, Hdr(c))[r])

\* astype(float) on one cell of a column on which it does not raise
AsFloat(x) == IF x.k = "str" THEN Num(IntValue(Strip(x.s))) ELSE x

\* survey_cleaning.py freq_map of the script: the keys in the casing of the answers
survey_freq_map ==
  << <<t_1_vez_por_semana, 1>>, <<t_2, 2>>, <<t_5, 5>>, <<t_6_o_mas, 6>>,
     <<<<"L","a"," ","p","e","r","i","o","d","i","c","i","d","a","d"," ","e","s"," ","q","u","i","n","c","e","n","a","l">>, 2>>, <<<<"L","a"," ","p","e","r","i","o","d","i","c","i","d","a","d"," ","e","s"," ","m","e","n","s","u","a","l">>, 1>> >>

\* .map(freq_map).fillna(0).astype(int).astype(CategoricalDtype([1, 2, 5, 6]))
SurveySupplyFrequencyNum(x) ==
  AsCategory(FillZero(IF x.k = "str" THEN MapLookup(survey_freq_map, x.s) ELSE NA),
             freq_categories)

\* the exception the type adjustment stops with, "none" when it runs through
SurveyTypeError(df) ==
  LET floors == Col(df, Hdr("warehouse_floor"))
  IN CASE AnyMissing(df, categorical__nominal_cols) -> "KeyError"
       [] AnyMissing(df, multi_col_text) -> "KeyError"
       [] ~HasCol(df, Hdr("warehouse_floor")) -> "KeyError"
       [] \E r \in 1..Len(floors) : ~IsNA(floors[r]) /\ FloatRaises(floors[r]) -> "ValueError"
       [] AnyMissing(df, survey_likert_cols) -> "KeyError"
       [] AnyMissing(df, num_cols) -> "KeyError"
       [] AnyMissing(df, survey_pct_cols) -> "KeyError"
       [] AsFloatRaises(df, survey_pct_cols) -> "ValueError"
       [] ~HasCol(df, Hdr("supply_frequency_per_week")) -> "KeyError"
       [] AnyMissing(df, descriptive_cols) -> "KeyError"
       [] OTHER -> "none"

\* the sort key of a floor on which float() does not raise
FloatKey(x) == IF x.k = "str" THEN FloatOf(Strip(x.s)) ELSE [mant |-> x.n, dec |-> 0]

RECURSIVE InsertByFloat(_, _)
InsertByFloat(sorted, x) ==
  IF sorted = <<>> THEN <<x>>
  ELSE IF FloatLess(FloatKey(x), FloatKey(Head(sorted)))
       THEN <<x>> \o sorted
       ELSE <<Head(sorted)>> \o InsertByFloat(Tail(sorted), x)

\* sorted(values, key=float)
RECURSIVE SortedByFloat(_)
SortedByFloat(vals) ==
  IF vals = <<>> THEN <<>>
  ELSE InsertByFloat(SortedByFloat(SubSeq(vals, 1, Len(vals) - 1)), vals[Len(vals)])

\* sections 3.1 to 3.7 on a table on which none of them raises
SurveyTypeAdjustment(df) ==
  LET d1 == AsTypeStr(df, multi_col_text)
      d2 == WithCats(d1, Hdr("warehouse_floor"),
                     SortedByFloat(Unique(Col(d1, Hdr("warehouse_floor")), 1)))
      AsLikert(x) == AsCategory(x, likert)
      d3 == MapCols(d2, survey_likert_cols, AsLikert)
      d4 == MapCols(d3, num_cols, to_numeric_coerce)
      d5 == MapCols(d4, survey_pct_cols, AsFloat)
  IN WithCats(
       SetCol(d5, Hdr("supply_frequency_num"),
              [r \in 1..Len(d5.rows) |->
                 SurveySupplyFrequencyNum(Col(d5, Hdr("supply_frequency_per_week"))[r])]),
       Hdr("supply_frequency_num"), freq_categories)

(***************************************************************************)
(* The analysis functions: establishment type, keyword labels, explode and *)
(* the table of row proportions.  A cell may hold a list of texts          *)
(* ([k |-> "list", items |-> texts]) between the labelling and the explode. *)
(***************************************************************************)
\* final_cleaning_survey.py est_types (the same list in every analysis function)
est_types ==
  << <<"P","r","o","v","e","e","d","o","r">>,
     <<"V","e","n","t","a"," ","a","l"," ","d","e","t","a","l","l","e">>,
     <<"F","a","b","r","i","c","a","n","t","e">>,
     <<"V","e","n","t","a","s"," ","p","o","r"," ","i","n","t","e","r","n","e","t">> >>

\* final_cleaning_survey.py rename: the English name of an establishment type
rename ==
  << <<<<"P","r","o","v","e","e","d","o","r">>,
       <<"S","u","p","p","l","i","e","r">>>>,
     <<<<"V","e","n","t","a"," ","a","l"," ","d","e","t","a","l","l","e">>,
       <<"R","e","t","a","i","l","e","r">>>>,
     <<<<"F","a","b","r","i","c","a","n","t","e">>,
       <<"M","a","n","u","f","a","c","t","u","r","e","r">>>>,
     <<<<"V","e","n","t","a","s"," ","p","o","r"," ","i","n","t","e","r","n","e","t">>,
       <<"E","-","c","o","m","m","e","r","c","e">>>> >>

\* transportation_mode: transp_mode
transp_mode ==
  << <<"c","a","m","i","ó","n">>,
     <<"m","o","t","o","c","i","c","l","e","t","a">>,
     <<"b","i","c","i","c","l","e","t","a">>,
     <<"c","a","r","r","e","t","a">>,
     <<"p","a","r","t","i","c","u","l","a","r">> >>

\* transportation_mode: rename1
transp_rename1 ==
  << <<<<"b","i","c","i","c","l","e","t","a">>,
       <<"B","i","c","y","c","l","e">>>>,
     <<<<"c","a","m","i","ó","n">>,
       <<"T","r","u","c","k">>>>,
     <<<<"c","a","r","r","e","t","a">>,
       <<"H","a","n","d","c","a","r","t">>>>,
     <<<<"m","o","t","o","c","i","c","l","e","t","a">>,
       <<"M","o","t","o","r","c","y","c","l","e">>>>,
     <<<<"p","a","r","t","i","c","u","l","a","r">>,
       <<"P","r","i","v","a","t","e"," ","V","e","h","i","c","l","e">>>> >>

\* unloading_location: unloading
unloading ==
  << <<"s","o","b","r","e"," ","l","a"," ","v","í","a">>,
     <<"s","o","b","r","e"," ","e","l"," ","a","n","d","é","n">>,
     <<"b","a","h","í","a">>,
     <<"i","n","t","e","r","n","a","m","e","n","t","e">>,
     <<"v","í","a","s"," ","a","l","e","d","a","ñ","a","s">>,
     <<"p","a","r","q","u","e","a","d","e","r","o">> >>

\* unloading_location: rename1
unloading_rename1 ==
  << <<<<"s","o","b","r","e"," ","l","a"," ","v","í","a">>,
       <<"O","n"," ","t","h","e"," ","r","o","a","d">>>>,
     <<<<"s","o","b","r","e"," ","e","l"," ","a","n","d","é","n">>,
       <<"O","n"," ","t","h","e"," ","s","i","d","e","w","a","l","k">>>>,
     <<<<"b","a","h","í","a">>,
       <<"L","o","a","d","i","n","g","/","u","n","l","o","a","d","i","n","g"," ","z","o","n","e">>>>,
     <<<<"i","n","t","e","r","n","a","m","e","n","t","e">>,
       <<"E","s","t","a","b","l","i","s","h","m","e","n","t"," ","f","a","c","i","l","i","t","i","e","s">>>>,
     <<<<"v","í","a","s"," ","a","l","e","d","a","ñ","a","s">>,
       <<"N","e","a","r","b","y"," ","r","o","a","d","s">>>>,
     <<<<"p","a","r","q","u","e","a","d","e","r","o">>,
       <<"P","a","r","k","i","n","g"," ","l","o","t">>>> >>

\* traditional_deliveries: to_unify, but for its key np.nan
to_unify ==
  << <<<<"M","o","t","o","c","i","c","l","e","t","a">>,
       <<"M","o","t","o","r","c","y","c","l","e">>>>,
     <<<<"N","o"," ","s","e"," ","r","e","a","l","i","z","a","n"," ","d","o","m","i","c","i","l","i","o","s">>,
       <<"N","o"," ","d","e","l","i","v","e","r","i","e","s">>>>,
     <<<<"F","u","r","g","ó","n">>,
       <<"V","a","n","/","C","a","r">>>>,
     <<<<"C","a","r","r","e","t","a"," ","\"","z","o","r","r","i","l","l","a","\"">>,
       <<"H","a","n","d","c","a","r","t">>>>,
     <<<<"C","a","m","i","n","a","t","a">>,
       <<"W","a","l","k","i","n","g">>>>,
     <<<<"V","e","h","í","c","u","l","o"," ","p","a","r","t","i","c","u","l","a","r">>,
       <<"V","a","n","/","C","a","r">>>>,
     <<<<"V","a","n">>,
       <<"V","a","n","/","C","a","r">>>>,
     <<<<"C","a","r","r","o"," ","p","a","r","t","i","c","u","l","a","r">>,
       <<"V","a","n","/","C","a","r">>>>,
     <<<<"T","r","a","n","s","p","o","r","t","a","d","o","r","a">>,
       <<"C","a","r","r","i","e","r">>>>,
     <<<<"E","m","p","r","e","s","a"," ","t","r","a","n","s","p","o","r","t","a","d","o","r","a">>,
       <<"C","a","r","r","i","e","r">>>>,
     <<<<"S","e","r","v","i","c","i","o"," ","d","e"," ","m","e","n","s","a","j","e","r","í","a">>,
       <<"C","a","r","r","i","e","r">>>>,
     <<<<"S","e","r","v","i","c","i","o","s"," ","d","e"," ","m","e","n","s","a","j","e","r","í","a">>,
       <<"C","a","r","r","i","e","r">>>>,
     <<<<"C","a","m","i","o","n","e","t","a">>,
       <<"V","a","n","/","C","a","r">>>>,
     <<<<"B","i","c","i","c","l","e","t","a"," ","n","o","r","m","a","l">>,
       <<"B","i","k","e","/","C","a","r","g","o"," ","B","i","k","e">>>>,
     <<<<"B","i","c","i","c","l","e","t","a"," ","d","e"," ","c","a","r","g","a">>,
       <<"B","i","k","e","/","C","a","r","g","o"," ","B","i","k","e">>>>,
     <<<<"N","o"," ","a","p","l","i","c","a">>,
       <<"N","o"," ","d","e","l","i","v","e","r","i","e","s">>>>,
     <<<<"N","o"," ","s","e"," ","h","a","c","e","n"," ","e","n","v","í","o","s">>,
       <<"N","o"," ","d","e","l","i","v","e","r","i","e","s">>>>,
     <<<<"N","a">>,
       <<"N","o"," ","d","e","l","i","v","e","r","i","e","s">>>>,
     <<<<"N","o">>,
       <<"N","o"," ","d","e","l","i","v","e","r","i","e","s">>>>,
     <<<<"T","r","a","s","n","p","o","r","t","a","d","o","r","a">>,
       <<"C","a","r","r","i","e","r">>>>,
     <<<<"T","r","a","n","s","p","o","r","t","a","d","o","r","a","s">>,
       <<"C","a","r","r","i","e","r">>>>,
     <<<<"M","e","n","s","a","j","e","r","i","a"," ","c","o","n","t","r","a","t","a","d","a">>,
       <<"C","a","r","r","i","e","r">>>>,
     <<<<"M","o","t","o","c","a","r","g","a"," ","g","a","s","o","l","i","n","a">>,
       <<"T","h","r","e","e","w","h","e","e","l","e","r">>>> >>

\* unified.py TRANSPORT_MODES
TRANSPORT_MODES ==
  << <<"c","a","m","i","ó","n">>,
     <<"m","o","t","o","c","i","c","l","e","t","a">>,
     <<"b","i","c","i","c","l","e","t","a">>,
     <<"c","a","r","r","e","t","a">>,
     <<"p","a","r","t","i","c","u","l","a","r">> >>

\* unified.py UNLOADING_LOCATIONS
UNLOADING_LOCATIONS ==
  << <<"s","o","b","r","e"," ","l","a"," ","v","í","a">>,
     <<"s","o","b","r","e"," ","e","l"," ","a","n","d","é","n">>,
     <<"b","a","h","í","a">>,
     <<"i","n","t","e","r","n","a","m","e","n","t","e">>,
     <<"v","í","a","s"," ","a","l","e","d","a","ñ","a","s">>,
     <<"p","a","r","q","u","e","a","d","e","r","o">> >>

List(items) == [k |-> "list", items |-> items]

\* [word for word in words if word.lower() in text.lower()]
KeywordsIn(words, text) ==
  SelectSeq(words, LAMBDA w : Contains(Lower(text), Lower(w)))

\* the same with the last of the words found
LastKeyword(words, text) ==
  IF KeywordsIn(words, text) = <<>> THEN NA
  ELSE Str(KeywordsIn(words, text)[Len(KeywordsIn(words, text))])

\* next((word for word in words if word.lower() in text.lower()), None)
FirstKeyword(words, text) ==
  IF KeywordsIn(words, text) = <<>> THEN NA ELSE Str(Head(KeywordsIn(words, text)))

\* df[cols].copy()
Select(df, cols) ==
  [df EXCEPT !.columns = [i \in 1..Len(cols) |-> Hdr(cols[i])],
             !.rows = [r \in 1..Len(df.rows) |->
                         [i \in 1..Len(cols) |-> df.rows[r][ColIndex(df, Hdr(cols[i]))]]]]

\* x.lower() raises AttributeError on a cell that is no text (a missing
\* cell is the float NaN)
LowerRaises(df, cols) ==
  \E c \in SeqToSet(cols) : \E r \in 1..Len(df.rows) : Col(df, Hdr(c))[r].k # "str"

\* the row and item each row of df.explode(h) comes from: item 0 for a cell
\* that is no list or the empty list
RECURSIVE ExplodePlan(_, _, _)
ExplodePlan(df, c, r) ==
  IF r > Len(df.rows) THEN <<>>
  ELSE LET x == df.rows[r][c]
           n == IF x.k = "list" THEN Len(x.items) ELSE 0
       IN (IF n = 0 THEN <<<<r, 0>>>> ELSE [j \in 1..n |-> <<r, j>>])
          \o ExplodePlan(df, c, r + 1)

\* the same with the first item of every list only
explode_first(df, h) ==
  LET c == ColIndex(df, h)
      Cell(x) == IF x.k # "list" THEN x
                 ELSE IF x.items = <<>> THEN NA ELSE Str(x.items[1])
  IN [df EXCEPT !.rows = [r \in 1..Len(df.rows) |->
                            [df.rows[r] EXCEPT ![c] = Cell(df.rows[r][c])]]]

\* df.explode(h): one row per item under the index label of its row; the
\* empty list gives one row with a missing cell
explode(df, h) ==
  LET c == ColIndex(df, h)
      plan == ExplodePlan(df, c, 1)
      Cell(p) == LET x == df.rows[p[1]][c]
                 IN IF p[2] = 0 THEN (IF x.k = "list" THEN NA ELSE x)
                    ELSE Str(x.items[p[2]])
  IN [df EXCEPT !.rows = [p \in 1..Len(plan) |->
                            [df.rows[plan[p][1]] EXCEPT ![c] = Cell(plan[p])]],
                !.index = [p \in 1..Len(plan) |-> df.index[plan[p][1]]]]

\* reset_index(drop=True)
reset_index(df) == [df EXCEPT !.index = [i \in 1..Len(df.rows) |-> i - 1]]

\* the key of row r in groupby([g, v])
GroupKey(df, g, v, r) == <<Col(df, Hdr(g))[r], Col(df, Hdr(v))[r]>>

\* the groups of groupby([g, v]): a row with a missing key is in no group
GroupKeys(df, g, v) ==
  {GroupKey(df, g, v, r) :
     r \in {q \in 1..Len(df.rows) :
              ~IsNA(GroupKey(df, g, v, q)[1]) /\ ~IsNA(GroupKey(df, g, v, q)[2])}}

\* groupby([g, v])[c].count() of one group: its rows whose cell c is not missing
GroupCount(df, g, v, c, key) ==
  Cardinality({r \in 1..Len(df.rows) :
                 GroupKey(df, g, v, r) = key /\ ~IsNA(Col(df, Hdr(c))[r])})

RECURSIVE SumOver(_, _, _)
SumOver(f, row, cols) ==
  IF cols = {} THEN 0
  ELSE LET l == CHOOSE l \in cols : TRUE
       IN f[<<row, l>>] + SumOver(f, row, cols \ {l})

\* a value of a table of proportions: the quotient of two counts
Frac(n, d) == [num |-> n, den |-> d]

\* groupby([g, v])[c].count(), pivot(index=g, columns=v).fillna(0), then
\* div(sum(axis=1), axis=0): the quotient 0 / 0 of a row of zeros is NaN
Proportions(df, g, v, c) ==
  LET keys == GroupKeys(df, g, v)
      index == {k[1] : k \in keys}
      columns == {k[2] : k \in keys}
      frequency == [p \in index \X columns |->
                      IF p \in keys THEN GroupCount(df, g, v, c, p) ELSE 0]
      total == [i \in index |-> SumOver(frequency, i, columns)]
  IN [index |-> index, columns |-> columns,
      frequency |-> frequency, total |-> total,
      cell |-> [p \in index \X columns |->
                  IF total[p[1]] = 0 THEN NA ELSE Frac(frequency[p], total[p[1]])],
      row_name |-> [i \in index |-> StrOf(i)],
      column_name |-> [l \in columns |-> StrOf(l)]]

\* the same with the empty text for a text that is no key
ReplaceOrBlank(mapping, s) ==
  IF \E i \in 1..Len(mapping) : mapping[i][1] = s
  THEN mapping[CHOOSE i \in 1..Len(mapping) : mapping[i][1] = s][2]
  ELSE <<>>

\* the value a dict maps the text to, the text itself when it is no key
Replace(mapping, s) ==
  IF \E i \in 1..Len(mapping) : mapping[i][1] = s
  THEN mapping[CHOOSE i \in 1..Len(mapping) : mapping[i][1] = s][2]
  ELSE s

\* df.rename(index=rename) and df.rename(columns=rename1) on a table of
\* proportions
RenameProportions(t, index_map, column_map) ==
  [t EXCEPT !.row_name = [i \in t.index |-> Replace(index_map, t.row_name[i])],
            !.column_name = [l \in t.columns |-> Replace(column_map, t.column_name[l])]]

(***************************************************************************)
(* final_cleaning_survey.py transportation_mode, unloading_location and    *)
(* traditional_deliveries.                                                 *)
(***************************************************************************)
\* the columns kept, est_type, and the list of the words found in the field
KeywordLabels(df, field, new, words) ==
  LET d0 == Select(df, <<"economic_activity", field, "employees">>)
      d1 == SetCol(d0, Hdr("est_type"),
                   [r \in 1..Len(d0.rows) |->
                      FirstKeyword(est_types, Col(d0, Hdr("economic_activity"))[r].s)])
  IN SetCol(d1, Hdr(new),
            [r \in 1..Len(d1.rows) |-> List(KeywordsIn(words, Col(d1, Hdr(field))[r].s))])

\* Series.str.strip(): a cell that is no text is missing afterwards
StrStrip(x) == IF x.k = "str" THEN Str(Strip(x.s)) ELSE NA

\* the same on the words of the answer: a word that holds "ning" becomes 'No'
ReplaceNingWord(x) ==
  IF x.k # "str" THEN x
  ELSE LET words == Split(x.s, <<" ">>)
       IN Str(Join([i \in 1..Len(words) |->
                      IF Contains(Lower(words[i]), <<"n","i","n","g">>) THEN <<"N","o">> ELSE words[i]],
                   <<" ">>))

\* Series.str.replace(r".*ning.*", 'No', regex=True, case=False): every line
\* that holds "ning" in any casing becomes 'No'
ReplaceNing(x) ==
  IF x.k # "str" THEN x
  ELSE LET lines == Split(x.s, <<"\n">>)
       IN Str(Join([i \in 1..Len(lines) |->
                      IF Contains(Lower(lines[i]), <<"n","i","n","g">>) THEN <<"N","o">> ELSE lines[i]],
                   <<"\n">>))

\* Series.str.split(',\s*')
StrSplit(x) == IF x.k = "str" THEN List(SplitCommaSpaces(x.s)) ELSE NA

\* Series.replace(to_unify): np.nan is a key of to_unify
ReplaceToUnify(x) ==
  CASE IsNA(x) -> Str(<<"N","o"," ","d","e","l","i","v","e","r","i","e","s">>)
    [] x.k = "str" -> Str(Replace(to_unify, x.s))
    [] OTHER -> x

\* traditional_deliveries up to the replace: one row per token of the answer
TraditionalLabels(df) ==
  LET d0 == Select(df, <<"economic_activity", "delivery_transp_mode", "employees">>)
      d1 == SetCol(d0, Hdr("est_type"),
                   [r \in 1..Len(d0.rows) |->
                      FirstKeyword(est_types, Col(d0, Hdr("economic_activity"))[r].s)])
      Tokens(x) == StrSplit(ReplaceNing(StrStrip(x)))
      d2 == SetCol(d1, Hdr("delivery_transp_mode"),
                   [r \in 1..Len(d1.rows) |-> Tokens(Col(d1, Hdr("delivery_transp_mode"))[r])])
      d3 == explode(d2, Hdr("delivery_transp_mode"))
  IN SetCol(d3, Hdr("delivery_transp_mode"),
            [r \in 1..Len(d3.rows) |-> ReplaceToUnify(Col(d3, Hdr("delivery_transp_mode"))[r])])

(***************************************************************************)
(* unified.py categorize_establishment_type, extract_keywords_from_text    *)
(* and compute_percentage_distributions.                                   *)
(***************************************************************************)
\* the Series categorize_establishment_type(df) returns
categorize_establishment_type(df) ==
  LET column == IF HasCol(df, Hdr("establishment_type")) THEN "establishment_type"
                ELSE "economic_activity"
  IN IF ~HasCol(df, Hdr(column)) THEN [r \in 1..Len(df.rows) |-> NA]
     ELSE [r \in 1..Len(df.rows) |->
             FirstKeyword(est_types, StrOf(Col(df, Hdr(column))[r]))]

\* the text the keywords are searched in
SearchText(x, normalize) ==
  IF normalize THEN (IF IsNA(x) THEN <<>> ELSE NormalizeText(Str(StrOf(x))))
  ELSE StrOf(x)

extract_keywords_from_text(df, column, keywords, normalize) ==
  reset_index(
    explode(SetCol(df, Hdr(column \o "_keywords"),
                   [r \in 1..Len(df.rows) |->
                      List(KeywordsIn(keywords,
                                      SearchText(Col(df, Hdr(column))[r], normalize)))]),
            Hdr(column \o "_keywords")))

compute_percentage_distributions(df, group_col, value_col, count_col) ==
  Proportions(df, group_col, value_col, count_col)

(***************************************************************************)
(* unified.py translate_multi and its dictionaries.                        *)
(***************************************************************************)
\* unified.py DAY_EN, as <<key, value>> pairs
DAY_EN ==
  << <<<<"L","u","n","e","s">>, <<"M","o","n","d","a","y">>>>, <<<<"M","a","r","t","e","s">>, <<"T","u","e","s","d","a","y">>>>,
     <<<<"M","i","é","r","c","o","l","e","s">>, <<"W","e","d","n","e","s","d","a","y">>>>, <<<<"J","u","e","v","e","s">>, <<"T","h","u","r","s","d","a","y">>>>,
     <<<<"V","i","e","r","n","e","s">>, <<"F","r","i","d","a","y">>>>, <<<<"S","á","b","a","d","o">>, <<"S","a","t","u","r","d","a","y">>>>,
     <<<<"D","o","m","i","n","g","o">>, <<"S","u","n","d","a","y">>>> >>

\* unified.py DMODE_EN
DMODE_EN ==
  << <<<<"C","a","m","i","n","a","n","d","o"," ","/"," ","F","o","o","t">>,
       <<"W","a","l","k","i","n","g","/","F","o","o","t">>>>,
     <<<<"B","i","c","i","c","l","e","t","a"," ","/"," ","B","i","c","y","c","l","e">>,
       <<"B","i","c","y","c","l","e">>>>,
     <<<<"M","o","t","o","c","i","c","l","e","t","a"," ","/"," ","M","o","t","o","r","c","y","c","l","e">>,
       <<"M","o","t","o","r","c","y","c","l","e">>>>,
     <<<<"C","a","r","r","o"," ","p","a","r","t","i","c","u","l","a","r"," ","/"," ","P","r","i","v","a","t","e"," ","c","a","r">>,
       <<"P","r","i","v","a","t","e"," ","c","a","r">>>>,
     <<<<"C","a","m","i","o","n","e","t","a"," ","/"," ","P","i","c","k","-","u","p"," ","t","r","u","c","k">>,
       <<"P","i","c","k","-","u","p"," ","t","r","u","c","k">>>>,
     <<<<"V","e","h","í","c","u","l","o"," ","d","e"," ","c","a","r","g","a"," ","l","i","v","i","a","n","a"," ","/"," ","S","m","a","l","l"," ","d","e","l","i","v","e","r","y"," ","v","e","h","i","c","l","e">>,
       <<"S","m","a","l","l"," ","d","e","l","i","v","e","r","y"," ","v","e","h","i","c","l","e">>>>,
     <<<<"V","e","h","í","c","u","l","o"," ","d","e"," ","c","a","r","g","a"," ","m","e","d","i","a","n","a"," ","/"," ","M","e","d","i","u","m"," ","d","e","l","i","v","e","r","y"," ","v","e","h","i","c","l","e">>,
       <<"M","e","d","i","u","m"," ","d","e","l","i","v","e","r","y"," ","v","e","h","i","c","l","e">>>>,
     <<<<"V","e","h","í","c","u","l","o"," ","d","e"," ","c","a","r","g","a"," ","p","e","s","a","d","a"," ","/"," ","H","e","a","v","y"," ","d","e","l","i","v","e","r","y"," ","v","e","h","i","c","l","e">>,
       <<"H","e","a","v","y"," ","d","e","l","i","v","e","r","y"," ","v","e","h","i","c","l","e">>>>,
     <<<<"D","i","a","b","l","i","t","o"," ","/"," ","D","o","l","l","y">>,
       <<"D","o","l","l","y">>>>,
     <<<<"C","a","r","r","o"," ","d","e"," ","c","a","r","g","a","s"," ","/"," ","C","a","r","g","o"," ","c","a","r","t">>,
       <<"C","a","r","g","o"," ","c","a","r","t">>>>,
     <<<<"S","e","r","v","i","c","i","o"," ","d","e"," ","T","r","a","n","s","p","o","r","t","e"," ","P","ú","b","l","i","c","o"," ","/"," ","P","u","b","l","i","c"," ","t","r","a","n","s","p","o","r","t">>,
       <<"P","u","b","l","i","c"," ","t","r","a","n","s","p","o","r","t">>>> >>

\* unified.py UNLOAD_EN
UNLOAD_EN ==
  << <<<<"A","c","e","r","a"," ","/"," ","S","i","d","e","w","a","l","k">>,
       <<"S","i","d","e","w","a","l","k">>>>,
     <<<<"C","a","r","r","i","l"," ","d","e"," ","t","r","á","f","i","c","o"," ","/"," ","T","r","a","f","f","i","c"," ","l","a","n","e">>,
       <<"T","r","a","f","f","i","c"," ","l","a","n","e">>>>,
     <<<<"C","a","r","r","i","l"," ","d","e"," ","e","s","t","a","c","i","o","n","a","m","i","e","n","t","o"," ","/"," ","P","a","r","k","i","n","g"," ","l","a","n","e">>,
       <<"P","a","r","k","i","n","g"," ","l","a","n","e">>>>,
     <<<<"Z","o","n","a"," ","d","e"," ","d","e","s","c","a","r","g","u","e"," ","/"," ","D","e","d","i","c","a","t","e","d"," ","u","n","l","o","a","d","i","n","g"," ","z","o","n","e">>,
       <<"D","e","d","i","c","a","t","e","d"," ","u","n","l","o","a","d","i","n","g"," ","z","o","n","e">>>>,
     <<<<"E","s","p","a","c","i","o"," ","p","r","i","v","a","d","o"," ","/"," ","P","r","i","v","a","t","e"," ","s","p","a","c","e">>,
       <<"P","r","i","v","a","t","e"," ","s","p","a","c","e">>>>,
     <<<<"C","a","l","l","e"," ","c","e","r","r","a","d","a"," ","/"," ","C","l","o","s","e","d"," ","s","t","r","e","e","t">>,
       <<"C","l","o","s","e","d"," ","s","t","r","e","e","t">>>> >>

\* unified.py EQUIP_EN
EQUIP_EN ==
  << <<<<"M","o","n","t","a","c","a","r","g","a","s"," ","/"," ","F","o","r","k","l","i","f","t">>,
       <<"F","o","r","k","l","i","f","t">>>>,
     <<<<"C","a","r","r","e","t","i","l","l","a"," ","/"," ","C","a","r","t">>,
       <<"C","a","r","t">>>>,
     <<<<"G","r","ú","a"," ","/"," ","C","r","a","n","e">>,
       <<"C","r","a","n","e">>>>,
     <<<<"P","l","a","t","a","f","o","r","m","a"," ","h","i","d","r","á","u","l","i","c","a"," ","/"," ","H","y","d","r","a","u","l","i","c"," ","p","l","a","t","f","o","r","m">>,
       <<"H","y","d","r","a","u","l","i","c"," ","p","l","a","t","f","o","r","m">>>>,
     <<<<"C","o","r","r","e","a","s"," ","t","r","a","n","s","p","o","r","t","a","d","o","r","a","s"," ","/"," ","C","o","n","v","e","y","o","r"," ","b","e","l","t","s">>,
       <<"C","o","n","v","e","y","o","r"," ","b","e","l","t","s">>>>,
     <<<<"A","s","c","e","n","s","o","r"," ","/"," ","E","l","e","v","a","t","o","r">>,
       <<"E","l","e","v","a","t","o","r">>>>,
     <<<<"E","s","c","a","l","e","r","a"," ","m","e","c","á","n","i","c","a"," ","/"," ","E","s","c","a","l","a","t","o","r">>,
       <<"E","s","c","a","l","a","t","o","r">>>>,
     <<<<"R","a","m","p","a"," ","/"," ","R","a","m","p">>,
       <<"R","a","m","p">>>>,
     <<<<"E","s","c","a","l","e","r","a"," ","/"," ","S","t","a","i","r","s">>,
       <<"S","t","a","i","r","s">>>>,
     <<<<"D","i","a","b","l","i","t","o"," ","/"," ","D","o","l","l","y">>,
       <<"D","o","l","l","y">>>> >>

\* unified.py GROUP_EN
GROUP_EN ==
  << <<<<"A","d","u","l","t","o"," ","m","a","y","o","r"," ","/"," ","S","e","n","i","o","r"," ","c","i","t","i","z","e","n">>,
       <<"S","e","n","i","o","r"," ","c","i","t","i","z","e","n">>>>,
     <<<<"E","s","t","u","d","i","a","n","t","e"," ","/"," ","S","t","u","d","e","n","t">>,
       <<"S","t","u","d","e","n","t">>>>,
     <<<<"H","a","b","i","t","a","n","t","e"," ","d","e"," ","c","a","l","l","e"," ","/"," ","H","o","m","e","l","e","s","s"," ","p","e","r","s","o","n">>,
       <<"H","o","m","e","l","e","s","s"," ","p","e","r","s","o","n">>>>,
     <<<<"P","e","r","s","o","n","a"," ","c","o","n"," ","d","i","s","c","a","p","a","c","i","d","a","d"," ","/"," ","P","e","r","s","o","n"," ","w","i","t","h"," ","d","i","s","a","b","i","l","i","t","y">>,
       <<"P","e","r","s","o","n"," ","w","i","t","h"," ","d","i","s","a","b","i","l","i","t","y">>>>,
     <<<<"P","o","b","l","a","c","i","ó","n"," ","L","G","B","T","I"," ","/"," ","L","G","B","T","I"," ","p","o","p","u","l","a","t","i","o","n">>,
       <<"L","G","B","T","I"," ","p","o","p","u","l","a","t","i","o","n">>>>,
     <<<<"T","r","a","b","a","j","a","d","o","r"," ","i","n","f","o","r","m","a","l"," ","/"," ","I","n","f","o","r","m","a","l"," ","w","o","r","k","e","r">>,
       <<"I","n","f","o","r","m","a","l"," ","w","o","r","k","e","r">>>>,
     <<<<"T","u","r","i","s","t","a"," ","/"," ","T","o","u","r","i","s","t">>,
       <<"T","o","u","r","i","s","t">>>>,
     <<<<"V","e","n","d","e","d","o","r"," ","a","m","b","u","l","a","n","t","e"," ","/"," ","S","t","r","e","e","t"," ","v","e","n","d","o","r">>,
       <<"S","t","r","e","e","t"," ","v","e","n","d","o","r">>>> >>

\* the same separators with the bare comma and semicolon tried first
separators_bare_first == << <<",">>, <<";">>, <<",", " ">>, <<";", " ">> >>

\* translate_multi: separators, in the order they are tried
separators == << <<",", " ">>, <<";", " ">>, <<",">>, <<";">> >>

\* translate_multi(text, mapping_dict): the cell it returns
translate_multi(text, mapping_dict) ==
  IF IsNA(text) \/ text = Str(<<>>) THEN text
  ELSE LET s == StrOf(text)
           found == {i \in 1..Len(separators) : Contains(s, separators[i])}
       IN IF found = {} THEN Str(Replace(mapping_dict, Strip(s)))
          ELSE LET sep == separators[CHOOSE i \in found : \A j \in found : i <= j]
                   items == Split(s, sep)
               IN Str(Join([i \in 1..Len(items) |-> Replace(mapping_dict, Strip(items[i]))],
                           sep))

\* unified.py MAPS: the dictionary of each multi-label column
MAPS ==
  << <<"service_days", DAY_EN>>,
     <<"supply_week", DAY_EN>>,
     <<"dispatch_week", DAY_EN>>,
     <<"supply_mode", DMODE_EN>>,
     <<"dispatch_mode", DMODE_EN>>,
     <<"supply_unloading", UNLOAD_EN>>,
     <<"dispatch_loading", UNLOAD_EN>>,
     <<"supply_equipment", EQUIP_EN>>,
     <<"dispatch_equipment", EQUIP_EN>>,
     <<"served_groups", GROUP_EN>> >>

\* translate_all_multi_labels(df): a copy of df with translate_multi applied
\* to the cells of every column that is a key of MAPS
translate_all_multi_labels(df) ==
  LET Dict(h) == {i \in 1..Len(MAPS) : Hdr(MAPS[i][1]) = h}
  IN [df EXCEPT !.rows =
        [r \in 1..Len(df.rows) |->
           [c \in 1..Len(df.columns) |->
              IF Dict(df.columns[c]) = {} THEN df.rows[r][c]
              ELSE translate_multi(df.rows[r][c],
                                   MAPS[CHOOSE i \in Dict(df.columns[c]) : TRUE][2])]]]

\* the string of a text
RECURSIVE TextString(_)
TextString(s) == IF s = <<>> THEN "" ELSE Head(s) \o TextString(Tail(s))

\* f"{prefix}_{value.replace(' ', '_').replace('/', '_').lower()}"
OneHotName(prefix, value) ==
  prefix \o "_" \o
  TextString(Lower([i \in 1..Len(value) |-> IF value[i] \in {" ", "/"} THEN "_" ELSE value[i]]))

\* the columns create_one_hot_encoding adds for the values of the dictionary
\* from position i on: 1 if pd.notna(x) and value in str(x) else 0
RECURSIVE OneHotFrom(_, _, _, _, _)
OneHotFrom(df, column, mapping_dict, prefix, i) ==
  IF i > Len(mapping_dict) THEN df
  ELSE OneHotFrom(
         SetCol(df, Hdr(OneHotName(prefix, mapping_dict[i][2])),
                [r \in 1..Len(df.rows) |->
                   LET x == Col(df, Hdr(column))[r]
                   IN IF ~IsNA(x) /\ Contains(StrOf(x), mapping_dict[i][2])
                      THEN Num(1) ELSE Num(0)]),
         column, mapping_dict, prefix, i + 1)

\* create_one_hot_encoding(df, column, mapping_dict) with prefix = column:
\* the table it returns
create_one_hot_encoding(df, column, mapping_dict) ==
  IF ~HasCol(df, Hdr(column)) THEN df
  ELSE OneHotFrom(df, column, mapping_dict, column, 1)

\* prepare_famd_dataset: multi_label_fields
multi_label_fields ==
  <<"service_days", "supply_week", "dispatch_week", "supply_mode", "dispatch_mode",
    "supply_unloading", "dispatch_loading", "supply_equipment", "dispatch_equipment",
    "served_groups">>

\* prepare_famd_dataset: numeric_vars
numeric_vars == <<"floors", "employees", "latitude", "longitude">>

\* the loop over multi_label_fields from position i on
RECURSIVE EncodeFields(_, _)
EncodeFields(df, i) ==
  IF i > Len(multi_label_fields) THEN df
  ELSE LET field == multi_label_fields[i]
           known == {k \in 1..Len(MAPS) : MAPS[k][1] = field}
       IN EncodeFields(
            IF known # {} /\ HasCol(df, Hdr(field))
            THEN create_one_hot_encoding(df, field, MAPS[CHOOSE k \in known : TRUE][2])
            ELSE df,
            i + 1)

\* prepare_famd_dataset(df): astype('category') keeps every value
prepare_famd_dataset(df) ==
  LET df_famd == EncodeFields(translate_all_multi_labels(df), 1)
  IN [df_famd EXCEPT !.rows =
        [r \in 1..Len(df_famd.rows) |->
           [c \in 1..Len(df_famd.columns) |->
              IF \E v \in SeqToSet(numeric_vars) : df_famd.columns[c] = Hdr(v)
              THEN to_numeric_coerce(df_famd.rows[r][c])
              ELSE df_famd.rows[r][c]]]]

(***************************************************************************)
(* unified.py clean_survey_for_analysis, after clean_survey.               *)
(***************************************************************************)
ESTABLISHMENT_TRANSLATIONS ==
  << <<<<"P","r","o","v","e","e","d","o","r">>, <<"S","u","p","p","l","i","e","r">>>>, <<<<"V","e","n","t","a"," ","a","l"," ","d","e","t","a","l","l","e">>, <<"R","e","t","a","i","l","e","r">>>>,
     <<<<"F","a","b","r","i","c","a","n","t","e">>, <<"M","a","n","u","f","a","c","t","u","r","e","r">>>>, <<<<"V","e","n","t","a","s"," ","p","o","r"," ","i","n","t","e","r","n","e","t">>, <<"E","-","c","o","m","m","e","r","c","e">>>> >>

\* clean_survey_for_analysis: freq_map
analysis_freq_map ==
  << <<<<"1"," ","v","e","z"," ","p","o","r"," ","s","e","m","a","n","a">>, <<"1","/","w","e","e","k">>>>, <<<<"2">>, <<"2","/","w","e","e","k">>>>, <<<<"5">>, <<"5","/","w","e","e","k">>>>,
     <<<<"6"," ","o"," ","m","á","s">>, <<"6","+","/","w","e","e","k">>>>, <<<<"L","a"," ","p","e","r","i","o","d","i","c","i","d","a","d"," ","e","s"," ","q","u","i","n","c","e","n","a","l">>, <<"B","i","w","e","e","k","l","y">>>>,
     <<<<"L","a"," ","p","e","r","i","o","d","i","c","i","d","a","d"," ","e","s"," ","m","e","n","s","u","a","l">>, <<"M","o","n","t","h","l","y">>>> >>

\* clean_survey_for_analysis: yesno_map
yesno_map ==
  << <<<<"S","í">>, <<"Y","e","s">>>>, <<<<"N","o">>, <<"N","o">>>>, <<<<"N","o"," ","a","p","l","i","c","a">>, <<"N","o","t"," ","a","p","p","l","i","c","a","b","l","e">>>> >>

\* Series.map(mapping) on one value, the values of the mapping being texts
MapText(mapping, x) ==
  IF x.k = "str" /\ \E i \in 1..Len(mapping) : mapping[i][1] = x.s
  THEN Str(mapping[CHOOSE i \in 1..Len(mapping) : mapping[i][1] = x.s][2])
  ELSE NA

\* the block under "if add_derived_columns"
AddDerivedColumns(df) ==
  LET d1 == SetCol(df, Hdr("est_type"), categorize_establishment_type(df))
      d2 == SetCol(d1, Hdr("est_type_en"),
                   [r \in 1..Len(d1.rows) |->
                      MapText(ESTABLISHMENT_TRANSLATIONS, Col(d1, Hdr("est_type"))[r])])
      d3 == IF HasCol(d2, Hdr("supply_week"))
            THEN SetCol(d2, Hdr("supply_frequency_clean"),
                        [r \in 1..Len(d2.rows) |->
                           MapText(analysis_freq_map,
                                   Str(StrIn(Col(d2, Hdr("supply_week")),
                                             Col(d2, Hdr("supply_week"))[r])))])
            ELSE d2
  IN IF HasCol(d3, Hdr("zuap_warehouse"))
     THEN SetCol(d3, Hdr("zuap_warehouse_en"),
                 [r \in 1..Len(d3.rows) |->
                    MapText(yesno_map, Str(StrOf(Col(d3, Hdr("zuap_warehouse"))[r])))])
     ELSE d3

\* clean_survey_for_analysis: numeric_cols
numeric_cols == <<"employees", "female_employees", "num_deliveries", "num_online_deliveries">>

\* the block under "if return_analysis_ready", on a table with est_type
AnalysisReady(df) ==
  LET keep == [r \in 1..Len(df.rows) |-> ~IsNA(Col(df, Hdr("est_type"))[r])]
      idx == KeptPositions(keep, 1)
      kept == [df EXCEPT !.rows = [i \in 1..Len(idx) |-> df.rows[idx[i]]],
                         !.index = [i \in 1..Len(idx) |-> df.index[idx[i]]]]
  IN [kept EXCEPT !.rows =
        [r \in 1..Len(kept.rows) |->
           [c \in 1..Len(kept.columns) |->
              IF \E v \in SeqToSet(numeric_cols) : kept.columns[c] = Hdr(v)
              THEN FillZero(to_numeric_coerce(kept.rows[r][c]))
              ELSE kept.rows[r][c]]]]

(***************************************************************************)
(* datacleaning.py: the indicator columns.                                 *)
(***************************************************************************)
\* a cell of a boolean Series
Bool(b) == [k |-> "bool", b |-> b]

\* Series.str.contains(keyword) on one cell: missing for a cell that is no text
StrContains(x, keyword) == IF x.k = "str" THEN Bool(Contains(x.s, keyword)) ELSE NA

\* the column is of dtype object, the dtype the .str accessor takes: a
\* column of numbers and missing values only is float64
IsObjectColumn(vals) == vals = <<>> \/ \E r \in 1..Len(vals) : vals[r].k = "str"

\* np.where(cond, 1, 0) on one cell of cond: the truth value of the object,
\* and bool(nan) is True
NpWhere(cond) == IF IsNA(cond) \/ cond.b THEN Num(1) ELSE Num(0)

\* cond1, cond2, cond3
typical_days == <<<<"M","a","r","t","e","s">>, <<"M","i","é","r","c","o","l","e","s">>, <<"J","u","e","v","e","s">>>>

\* np.where(cond1, 1, np.where(cond2, 1, np.where(cond3, 1, 0)))
typday_supply(x) ==
  IF \E i \in 1..Len(typical_days) : NpWhere(StrContains(x, typical_days[i])) = Num(1)
  THEN Num(1) ELSE Num(0)

\* cond4 to cond15 with the columns they fill
supply_indicators ==
  << <<"truck_supply", <<"c","a","m","i","ó","n">>>>, <<"moto_supply", <<"m","o","t","o","c","i","c","l","e","t","a">>>>,
     <<"bike_supply", <<"b","i","c","i","c","l","e","t","a">>>>, <<"wagon_supply", <<"c","a","r","r","e","t","a">>>>,
     <<"auto_supply", <<"p","a","r","t","i","c","u","l","a","r">>>>,
     <<"internal_truck_un", <<"i","n","t","e","r","n","a","m","e","n","t","e">>>>, <<"bay_truck_un", <<"t","r","a","n","s","p","o","r","t","a","d","o","r","a">>>>,
     <<"bay_personal_truck_un", <<"e","m","p","r","e","s","a">>>>, <<"road_truck_un", <<"v","í","a">>>>,
     <<"sidewalk_truck_un", <<"a","n","d","é","n">>>>, <<"near_road_truck_un", <<"a","l","e","d","a","ñ","a","s">>>>,
     <<"parklot_truck_un", <<"p","r","o","p","i","e","d","a","d">>>> >>

\* cond16 to cond22 with the columns they fill; cond20 fills none
storage_indicators ==
  << <<"wagon_storage", <<"C","a","r","r","e","t","i","l","l","a">>>>, <<"elevator_storage", <<"E","l","e","v","a","d","o","r">>>>,
     <<"mecramp_storage", <<"R","a","m","p","a"," ","m","e","c","á","n","i","c","a">>>>, <<"fixramp_storage", <<"R","a","m","p","a"," ","f","i","j","a">>>>,
     <<"intparking_storage", <<"i","n","t","e","r","n","o">>>>, <<"custparking_storage", <<"c","l","i","e","n","t","e","s">>>> >>

\* df[name] = np.where(df[source].str.contains(keyword), 1, 0) for the
\* indicators from position i on
RECURSIVE Indicators(_, _, _, _)
Indicators(df, source, indicators, i) ==
  IF i > Len(indicators) THEN df
  ELSE Indicators(SetCol(df, Hdr(indicators[i][1]),
                         [r \in 1..Len(df.rows) |->
                            NpWhere(StrContains(Col(df, Hdr(source))[r], indicators[i][2]))]),
                  source, indicators, i + 1)

\* df['supply_schedule'].str.replace(':00', '')
StrReplaceHours(x) ==
  IF x.k = "str" THEN Str(Join(Split(x.s, <<":","0","0">>), <<>>)) ELSE NA

\* delivery_mean_correct and num_delivery_corrected
num_delivery_corrected(df) ==
  LET d1 == SetCol(df, Hdr("delivery_mean_correct"),
                   [r \in 1..Len(df.rows) |->
                      NpWhere(StrContains(Col(df, Hdr("delivery_mean"))[r], <<"N","o"," ","s","e"," ","r","e","a","l","i","z","a","n">>))])
  IN SetCol(d1, Hdr("num_delivery_corrected"),
            [r \in 1..Len(d1.rows) |->
               LET x == Col(d1, Hdr("delivery_mean_correct"))[r]
               IN IF x = Num(1) THEN Num(0) ELSE x])

(***************************************************************************)
(* final_cleaning_survey.py unloading_equipement and e_commerce_deliveries *)
(***************************************************************************)
\* unloading_equipement: to_unify, but for its key np.nan
equipement_to_unify ==
  << <<<<"C","a","m","i","n","a","t","a">>, <<"M","a","n","u","a","l"," ","w","o","r","k","f","o","r","c","e">>>>, <<<<"N","a">>, <<"N","o">>>>, <<<<"1">>, <<"N","o">>>>,
     <<<<"C","a","m","i","n","a">>, <<"M","a","n","u","a","l"," ","w","o","r","k","f","o","r","c","e">>>>, <<<<"P","a","r","q","u","e","a","d","e","r","o"," ","d","e"," ","u","s","o"," ","i","n","t","e","r","n","o">>, <<"N","o">>>>,
     <<<<"A","l"," ","h","o","m","b","r","o">>, <<"M","a","n","u","a","l"," ","w","o","r","k","f","o","r","c","e">>>>, <<<<"D","e","s","c","a","r","g","u","e"," ","a"," ","m","a","n","o">>, <<"M","a","n","u","a","l"," ","w","o","r","k","f","o","r","c","e">>>>,
     <<<<"n","o"," ","p","o","s","e","e">>, <<"N","o">>>>, <<<<"P","e","r","s","o","n","a","l"," ","e","x","t","e","r","n","o">>, <<"M","a","n","u","a","l"," ","w","o","r","k","f","o","r","c","e">>>>,
     <<<<"P","a","r","q","u","e","a","d","e","r","o"," ","p","a","r","a"," ","c","l","i","e","n","t","e","s">>, <<"N","o">>>>, <<<<"A"," ","m","a","n","o">>, <<"M","a","n","u","a","l"," ","w","o","r","k","f","o","r","c","e">>>>,
     <<<<"L","a"," ","m","i","s","m","a"," ","p","e","r","s","o","n","a"," ","l","a"," ","c","a","r","g","a"," ","e","n"," ","s","u","s"," ","m","a","n","o","s">>, <<"M","a","n","u","a","l"," ","w","o","r","k","f","o","r","c","e">>>>,
     <<<<"N","o"," ","h","a","y"," ","b","o","d","e","g","a">>, <<"N","o">>>>, <<<<"L","a","s"," ","p","e","r","s","o","n","a","s"," ","l","o"," ","l","l","e","v","a","n"," ","c","a","r","g","a","d","o","s">>, <<"M","a","n","u","a","l"," ","w","o","r","k","f","o","r","c","e">>>>,
     <<<<"N","o"," ","s","e"," ","r","e","q","u","i","e","r","e"," ","p","o","r"," ","e","l"," ","v","o","l","u","m","e","n">>, <<"N","o">>>>, <<<<"N","o"," ","a","p","l","i","c","a">>, <<"N","o">>>>,
     <<<<"N","o"," ","e","s"," ","n","e","c","e","s","a","r","i","o"," ","e","n","t","r","a"," ","o","a","q","u","e","t","e"," ","m","a","n","u","a","l">>, <<"N","o">>>>,
     <<<<"N","o"," ","s","e"," ","r","e","q","u","i","e","r","e"," ","l","i","s"," ","p","a","q","u","e","t","e","s"," ","v","s","o","n"," ","p","e","q","u","e","ñ","o","s"," ","s","e","b","t","r","a","e","n"," ","a"," ","m","a","n","o">>, <<"N","o">>>>,
     <<<<"C","a","m","i","n","a","n","d","o">>, <<"M","a","n","u","a","l"," ","w","o","r","k","f","o","r","c","e">>>>, <<<<"C","a","j","a","s">>, <<"N","o">>>>,
     <<<<"C","a","r","r","e","t","i","l","l","a"," ","e","n","t","r","a">>, <<"C","a","r","r","e","t","i","l","l","a">>>>, <<<<"B","a","h","í","a">>, <<"N","o">>>>, <<<<"n","o">>, <<"N","o">>>>,
     <<<<"E","s","c","a","l","e","r","a","s"," ","e","l","é","c","t","r","i","c","a","s">>, <<"O","t","h","e","r">>>>, <<<<"E","s","c","a","l","a","s">>, <<"O","t","h","e","r">>>>,
     <<<<"P","o","r","t","a"," ","d","o","b","l","e">>, <<"O","t","h","e","r">>>>, <<<<"M","o","n","t","a","c","a","r","g","a","s">>, <<"L","o","a","d","i","n","g"," ","R","a","m","p">>>>,
     <<<<"R","a","m","p","a"," ","m","e","c","á","n","i","c","a">>, <<"L","o","a","d","i","n","g"," ","R","a","m","p">>>>, <<<<"G","a","t","o"," ","h","i","d","r","á","u","l","i","c","o">>, <<"L","o","a","d","i","n","g"," ","R","a","m","p">>>> >>

\* e_commerce_deliveries: to_unify, but for its key np.nan
online_to_unify ==
  << <<<<"M","o","t","o","c","i","c","l","e","t","a">>, <<"M","o","t","o","r","c","y","c","l","e">>>>,
     <<<<"N","o"," ","s","e"," ","r","e","a","l","i","z","a","n"," ","v","e","n","t","a","s"," ","p","o","r"," ","i","n","t","e","r","n","e","t">>, <<"N","o"," ","d","e","l","i","v","e","r","i","e","s">>>>,
     <<<<"V","e","h","í","c","u","l","o"," ","p","a","r","t","i","c","u","l","a","r">>, <<"V","a","n","/","C","a","r">>>>, <<<<"F","u","r","g","ó","n">>, <<"S","m","a","l","l"," ","t","r","u","c","k">>>>,
     <<<<"C","a","r","r","e","t","a"," ","\"","z","o","r","r","i","l","l","a","\"">>, <<"H","a","n","d","c","a","r","t">>>>,
     <<<<"S","i"," ","s","e"," ","r","e","a","l","i","z","a","n"," ","v","e","n","t","a","s"," ","p","o","r"," ","i","n","t","e","r","n","e","t">>, <<"N","o"," ","d","e","l","i","v","e","r","i","e","s">>>>,
     <<<<"C","a","m","i","n","a","t","a">>, <<"W","a","l","k","i","n","g">>>>, <<<<"M","o","s","t","r","a","d","o","r">>, <<"N","o"," ","d","e","l","i","v","e","r","i","e","s">>>>,
     <<<<"N","o">>, <<"N","o"," ","d","e","l","i","v","e","r","i","e","s">>>>, <<<<"C","l","i","e","n","t","e"," ","r","e","c","o","j","e"," ","e","n"," ","n","e","g","o","c","i","o">>, <<"N","o"," ","d","e","l","i","v","e","r","i","e","s">>>>,
     <<<<"N","o"," ","s","e"," ","r","e","a","l","i","z","a">>, <<"N","o"," ","d","e","l","i","v","e","r","i","e","s">>>>, <<<<"B","i","c","i","c","l","e","t","a"," ","n","o","r","m","a","l">>, <<"B","i","k","e","/","C","a","r","g","o"," ","B","i","k","e">>>>,
     <<<<"T","r","a","n","s","p","o","r","t","a","d","o","r","a">>, <<"C","a","r","r","i","e","r">>>>, <<<<"E","m","p","r","e","s","a"," ","t","r","a","n","s","p","o","r","t","a","d","o","r","a">>, <<"C","a","r","r","i","e","r">>>>,
     <<<<"T","r","a","n","s","p","o","r","t","a","d","o","r","a","s">>, <<"C","a","r","r","i","e","r">>>>, <<<<"R","e","a","l","i","z","a","n"," ","v","e","n","t","a"," ","p","o","r"," ","I","n","t","e","r","n","e","t">>, <<"N","o"," ","d","e","l","i","v","e","r","i","e","s">>>>,
     <<<<"c","l","i","e","n","t","e"," ","r","e","c","o","g","e">>, <<"N","o"," ","d","e","l","i","v","e","r","i","e","s">>>>, <<<<"S","e","r","v","i","c","i","o"," ","d","e"," ","m","e","n","s","a","j","e","r","í","a">>, <<"C","a","r","r","i","e","r">>>>,
     <<<<"C","a","m","i","o","n","e","t","a">>, <<"V","a","n","/","C","a","r">>>>, <<<<"B","i","c","i","c","l","e","t","a"," ","d","e"," ","c","a","r","g","a">>, <<"B","i","k","e","/","C","a","r","g","o"," ","B","i","k","e">>>>,
     <<<<"S","e","r","v","i","c","i","o","s"," ","d","e"," ","m","e","n","s","a","j","e","r","í","a">>, <<"C","a","r","r","i","e","r">>>>, <<<<"N","o","v","s","e"," ","h","a","c","e"," ","e","n","v","í","o","s">>, <<"N","o"," ","d","e","l","i","v","e","r","i","e","s">>>>,
     <<<<"N","a">>, <<"N","o"," ","d","e","l","i","v","e","r","i","e","s">>>>, <<<<"T","r","n","a","s","p","o","r","t","a","d","o","r","a">>, <<"C","a","r","r","i","e","r">>>>,
     <<<<"R","a","p","p","i","f","a","v","o","r">>, <<"C","a","r","r","i","e","r">>>>, <<<<"M","e","n","s","a","j","e","r","í","a"," ","c","o","n","t","r","a","t","a","d","a">>, <<"C","a","r","r","i","e","r">>>>,
     <<<<"V","a","n">>, <<"V","a","n","/","C","a","r">>>> >>

\* Series.replace(mapping) with np.nan: missing among the keys
ReplaceUnify(mapping, missing, x) ==
  CASE IsNA(x) -> Str(missing)
    [] x.k = "str" -> Str(Replace(mapping, x.s))
    [] OTHER -> x

\* the three functions up to the replace: one row per token of the answer
UnifiedLabels(df, field, mapping, missing) ==
  LET d0 == Select(df, <<"economic_activity", field, "employees">>)
      d1 == SetCol(d0, Hdr("est_type"),
                   [r \in 1..Len(d0.rows) |->
                      FirstKeyword(est_types, Col(d0, Hdr("economic_activity"))[r].s)])
      d2 == SetCol(d1, Hdr(field),
                   [r \in 1..Len(d1.rows) |->
                      StrSplit(ReplaceNing(StrStrip(Col(d1, Hdr(field))[r])))])
      d3 == explode(d2, Hdr(field))
  IN SetCol(d3, Hdr(field),
            [r \in 1..Len(d3.rows) |-> ReplaceUnify(mapping, missing, Col(d3, Hdr(field))[r])])

(***************************************************************************)
(* final_cleaning_survey.py supply_frequency and warehouse_in_zuap.        *)
(***************************************************************************)
\* supply_frequency: to_unify
frequency_to_unify ==
  << <<<<"L","a"," ","p","e","r","i","o","d","i","c","i","d","a","d"," ","e","s"," ","q","u","i","n","c","e","n","a","l">>, <<"O","t","h","e","r">>>>,
     <<<<"L","a"," ","p","e","r","i","o","d","i","c","i","d","a","d"," ","e","s"," ","m","e","n","s","u","a","l">>, <<"O","t","h","e","r">>>> >>

\* supply_frequency: rename1, its keys the numbers 5, 2, 3, 4 and two texts
frequency_rename1 ==
  << <<Num(5), <<"5"," ","t","i","m","e","s"," ","a"," ","w","e","e","k">>>>, <<Str(<<"6"," ","o"," ","m","á","s">>), <<"6"," ","t","i","m","e","s"," ","o","r"," ","m","o","r","e"," ","a"," ","w","e","e","k">>>>,
     <<Str(<<"1"," ","v","e","z"," ","p","o","r"," ","s","e","m","a","n","a">>), <<"1"," ","t","i","m","e"," ","a"," ","w","e","e","k">>>>, <<Num(2), <<"2"," ","t","i","m","e","s"," ","a"," ","w","e","e","k">>>>,
     <<Num(3), <<"3"," ","t","i","m","e","s"," ","a"," ","w","e","e","k">>>>, <<Num(4), <<"4"," ","t","i","m","e","s"," ","a"," ","w","e","e","k">>>> >>

\* supply_frequency: column_order
frequency_column_order ==
  <<<<"1"," ","t","i","m","e"," ","a"," ","w","e","e","k">>, <<"2"," ","t","i","m","e","s"," ","a"," ","w","e","e","k">>, <<"3"," ","t","i","m","e","s"," ","a"," ","w","e","e","k">>, <<"4"," ","t","i","m","e","s"," ","a"," ","w","e","e","k">>,
    <<"5"," ","t","i","m","e","s"," ","a"," ","w","e","e","k">>, <<"6"," ","t","i","m","e","s"," ","o","r"," ","m","o","r","e"," ","a"," ","w","e","e","k">>, <<"O","t","h","e","r">>>>

\* warehouse_in_zuap: rename1
zuap_rename1 == << <<Str(<<"S","í">>), <<"Y","e","s">>>> >>

\* warehouse_in_zuap: column_order
zuap_column_order == <<<<"Y","e","s">>, <<"N","o">>>>

\* df.rename(columns=rename1) on a table of proportions, the keys of rename1
\* being column labels: the number 5 is another label than the text '5'
RenameLabels(t, rename1) ==
  [t EXCEPT !.column_name =
     [l \in t.columns |->
        IF \E i \in 1..Len(rename1) : rename1[i][1] = l
        THEN rename1[CHOOSE i \in 1..Len(rename1) : rename1[i][1] = l][2]
        ELSE t.column_name[l]]]

\* df[[col for col in column_order if col in df.columns]]: the cells of the
\* other columns are gone, the cells kept are what the division gave them
SelectAvailable(t, column_order) ==
  LET kept == {l \in t.columns : t.column_name[l] \in SeqToSet(column_order)}
  IN [t EXCEPT !.columns = kept,
               !.frequency = [p \in t.index \X kept |-> t.frequency[p]],
               !.cell = [p \in t.index \X kept |-> t.cell[p]],
               !.column_name = [l \in kept |-> t.column_name[l]]]

\* the columns kept and est_type
WithEstType(df, field) ==
  LET d0 == Select(df, <<"economic_activity", field, "employees">>)
  IN SetCol(d0, Hdr("est_type"),
            [r \in 1..Len(d0.rows) |->
               FirstKeyword(est_types, Col(d0, Hdr("economic_activity"))[r].s)])

\* supply_frequency(df), for a table it does not raise on
supply_frequency(df) ==
  LET d1 == WithEstType(df, "supply_week")
      d2 == SetCol(d1, Hdr("supply_week"),
                   [r \in 1..Len(d1.rows) |->
                      LET x == Col(d1, Hdr("supply_week"))[r]
                      IN IF x.k = "str" THEN Str(Replace(frequency_to_unify, x.s)) ELSE x])
  IN SelectAvailable(
       RenameLabels(RenameProportions(Proportions(d2, "est_type", "supply_week", "employees"),
                                      rename, <<>>),
                    frequency_rename1),
       frequency_column_order)

\* warehouse_in_zuap(df), for a table it does not raise on
warehouse_in_zuap(df) ==
  SelectAvailable(
    RenameLabels(RenameProportions(Proportions(WithEstType(df, "zuap_warehouse"),
                                               "est_type", "zuap_warehouse", "employees"),
                                   rename, <<>>),
                 zuap_rename1),
    zuap_column_order)

(***************************************************************************)
(* The state of a run.                                                     *)
(*   raw   the sheet as pd.read_excel returns it                           *)
(*   df    the table the running script holds                              *)
(*   pc    the position of the script                                      *)
(*   err   the exception the script stopped with, "none" while it runs     *)
(*   args  the function called, its arguments and its loop variables       *)
(*   files the state of each file of the output directory                  *)
(***************************************************************************)
VARIABLES raw, df, pc, err, args, files

vars == <<raw, df, pc, err, args, files>>

(***************************************************************************)
(* The files the scripts write into the output directory.                  *)
(***************************************************************************)
\* final_cleaning_survey.py create_cleaned_df_for_r: the keys of
\* processed_datasets in the order they are stored
PROCESSED ==
  << "temporal_analysis", "transportation_mode", "unloading_location",
     "unloading_equipment", "supply_frequency", "warehouse_ownership",
     "warehouse_in_zuap", "ecommerce_deliveries", "traditional_deliveries",
     "supply_perception", "bike_perception" >>

\* unified.py create_analysis_datasets: the keys of datasets in their order
DATASETS == << "basic", "translated", "famd_ready", "r_optimized" >>

\* the formats save_analysis_outputs has a branch for
FORMATS == {"csv", "parquet", "excel"}

\* the lists of formats save_analysis_outputs is called with: its default,
\* the ones main() names, and one with a format it has no branch for
FormatLists ==
  { <<"csv">>, <<"csv", "parquet">>, <<"csv", "excel">>, <<"parquet", "excel">>,
    <<"json", "csv">> }

\* os.path.join(output_dir, f"{name}_for_r.csv")
ProcessedCsv(name) == name \o "_for_r.csv"

\* output_dir / f"{dataset_name}_survey.{fmt}"
SurveyFile(dataset_name, fmt) == dataset_name \o "_survey." \o fmt

OutputFiles ==
  {"cleaned_survey_for_r.csv", "cleaned_survey_for_r.xlsx", "processed_datasets_for_r.xlsx"}
  \cup {ProcessedCsv(PROCESSED[i]) : i \in 1..Len(PROCESSED)}
  \cup {SurveyFile(DATASETS[d], fmt) :
          d \in 1..Len(DATASETS), fmt \in UNION {SeqToSet(l) : l \in FormatLists}}

\* the output directory before a run
NoFiles == [f \in OutputFiles |-> "absent"]

\* what a call of to_csv, to_excel or to_parquet on a path leaves there: the
\* whole file when it returns; when it raises, nothing if the path could not
\* be opened and the part written so far if the writing stopped
WriteOutcomes == {"complete", "absent", "truncated"}

(***************************************************************************)
(* The sheets of the model.                                                *)
(***************************************************************************)
\* the labels of the survey sheet, by their lower-case text: the labels the
\* scripts drop and the ones they rename
SheetLabels ==
  col_out \o SelectSeq([i \in 1..Len(rename_map) |-> rename_map[i][1]],
                       LAMBDA k : k \notin SeqToSet(col_out))


\* the cell of a row that answers nothing: the form stamps the time itself
DefaultCell(h) == IF h.text = "marca temporal" THEN Ts(<<"2","0","2","1","-","0","3","-","0","1">>) ELSE NA

\* the sheet with every label, in the casing of the survey
FullColumns == [i \in 1..Len(SheetLabels) |-> SheetHdr(SheetLabels[i])]

\* a sheet whose rows answer one question only
FocusSheet(columns, focus, vals) ==
  Frame(columns,
        [r \in 1..Len(vals) |->
           [i \in 1..Len(columns) |->
              IF columns[i].text = focus THEN vals[r] ELSE DefaultCell(columns[i])]])

\* labels of sheets that are no full export: a padded label, a label in
\* another casing, labels outside both lists
HeaderPool ==
  << SheetHdr("id"),
     [text |-> "marca temporal", form |-> "sheet", pad |-> TRUE],
     [text |-> "db", form |-> "other", pad |-> FALSE],
     SheetHdr("por favor indique el número de colaboradores que tiene su empresa o comercio"),
     SheetHdr("por favor indique el número de mujeres que trabajan en su empresa o comercio"),
     SheetHdr("productos principales"),
     SheetHdr("porcentaje mujeres"),
     [text |-> "observaciones", form |-> "sheet", pad |-> FALSE] >>

\* the sub-sequence of s at the positions of the set S
SubSeqAt(s, S) == LET keep == [i \in 1..Len(s) |-> i \in S]
                      idx == KeptPositions(keep, 1)
                  IN [i \in 1..Len(idx) |-> s[idx[i]]]

\* the full sheet without the columns of the set gone
FullWithout(gone) ==
  SubSeqAt(FullColumns, {i \in 1..Len(FullColumns) : FullColumns[i].text \notin gone})

\* the sheets that vary in their labels, each with one row
HeaderSheets ==
  {FocusSheet(SubSeqAt(HeaderPool, S), "", <<NA>>) : S \in SUBSET (1..Len(HeaderPool))}
  \cup {FocusSheet(FullWithout(gone), "", <<NA>>) :
          gone \in {{}, {"db"}, {"id"}, {"porcentaje mujeres"}, {"nombre de la empresa"},
                    {"¿qué actividades se realizan?", "por favor, indique el municipio:"}}}

(***************************************************************************)
(* The steps of unified.py clean_survey.                                   *)
(***************************************************************************)
\* 3.1, 3.2: read the sheet, standardise the headers
CleanSurveyRead ==
  /\ pc = "start"
  /\ df' = StandardiseHeaders(raw)
  /\ pc' = "headers"
  /\ UNCHANGED <<raw, err, args, files>>

\* 3.3
CleanSurveyDrop ==
  /\ pc = "headers"
  /\ df' = DropNonInformative(df)
  /\ pc' = "dropped"
  /\ UNCHANGED <<raw, err, args, files>>

\* 3.4
CleanSurveyRename ==
  /\ pc = "dropped"
  /\ df' = RenameColumns(df)
  /\ pc' = "renamed"
  /\ UNCHANGED <<raw, err, args, files>>

\* 3.5
CleanSurveyTidy ==
  /\ pc = "renamed"
  /\ df' = BasicTidying(df)
  /\ pc' = "tidied"
  /\ UNCHANGED <<raw, err, args, files>>

\* 3.6: the sort of the floors raises ValueError out of clean_survey
CleanSurveyTypes ==
  /\ pc = "tidied"
  /\ IF FloorsRaise(df)
     THEN /\ pc' = "clean_raised"
          /\ err' = "ValueError"
          /\ UNCHANGED df
     ELSE /\ df' = TypeConversions(df)
          /\ pc' = "typed"
          /\ UNCHANGED err
  /\ UNCHANGED <<raw, args, files>>

\* 3.7: whether Series.map calls the mapper on a missing value of a
\* categorical column is the pandas release's choice
CleanSurveyNormalise ==
  /\ pc = "typed"
  /\ \E seesNaN \in BOOLEAN : df' = BasicNormalisation(df, seesNaN)
  /\ pc' = "normalised"
  /\ UNCHANGED <<raw, err, args, files>>

\* 3.8 and the return
CleanSurveyEcon ==
  /\ pc = "normalised"
  /\ df' = EconSplit(df)
  /\ pc' = "returned"
  /\ UNCHANGED <<raw, err, args, files>>

(***************************************************************************)
(* final_cleaning_survey.py and survey_cleaning.py.                        *)
(***************************************************************************)
FinalDataframeCleaning ==
  /\ pc = "start"
  /\ IF ColOutMissing(raw)
     THEN /\ pc' = "final_raised"
          /\ err' = "KeyError"
          /\ df' = raw
     ELSE /\ df' = RenameAndNormalise(DropColOut(raw))
          /\ pc' = "final_cleaned"
          /\ UNCHANGED err
  /\ UNCHANGED <<raw, args, files>>

SurveyCleaning ==
  /\ pc = "start"
  /\ df' = SurveyDataframeCleaning(raw)
  /\ pc' = "survey_cleaned"
  /\ UNCHANGED <<raw, err, args, files>>

SurveyTypes ==
  /\ pc = "survey_cleaned"
  /\ IF SurveyTypeError(df) # "none"
     THEN /\ pc' = "survey_raised"
          /\ err' = SurveyTypeError(df)
          /\ UNCHANGED df
     ELSE /\ df' = SurveyTypeAdjustment(df)
          /\ pc' = "survey_typed"
          /\ UNCHANGED err
  /\ UNCHANGED <<raw, args, files>>

NextClean ==
  \/ CleanSurveyRead
  \/ CleanSurveyDrop
  \/ CleanSurveyRename
  \/ CleanSurveyTidy
  \/ CleanSurveyTypes
  \/ CleanSurveyNormalise
  \/ CleanSurveyEcon
  \/ FinalDataframeCleaning
  \/ SurveyCleaning
  \/ SurveyTypes

InitHeaders ==
  /\ raw \in HeaderSheets
  /\ df = raw
  /\ pc = "start"
  /\ err = "none"
  /\ args = [fn |-> "none"]
  /\ files = NoFiles

\* the scripts on sheets that vary in their labels
SpecHeaders == InitHeaders /\ [][NextClean]_vars

(***************************************************************************)
(* Sheets that vary in the answers to one question.                        *)
(***************************************************************************)
\* the questions of the model and the answers drawn for each
Answers ==
  << <<"por favor indique el número de colaboradores que tiene su empresa o comercio",
       {Num(5), Str(<<"5">>), Str(<<"n","/","a">>), Str(<<"a","b","c">>), NA}>>,
     <<"productos principales",
       {Str(<<"R","o","p","a">>), Str(<<"r","o","p","a">>), Str(<<"C","a","f","é">>),
        Str(<<" ","R","o","p","a">>), NA}>>,
     <<"en una escala de 1 a 5, donde 1 es \"muy inseguro\" y 5 \"muy seguro\", ¿considera usted que el proceso de cargue y descargue de mercancías en camión, carro o motocicleta es?",
       {Num(1), Num(5), Num(0), Num(6), Str(<<"3">>), Str(<<"N","o"," ","a","p","l","i","c","a">>), NA}>>,
     <<"¿cuántas veces por semana abastece su establecimiento?",
       {Str(t_1_vez_por_semana), Num(2), Str(<<"3">>), Str(<<"4">>), Str(t_6_o_mas),
        Str(<<"L","a"," ","p","e","r","i","o","d","i","c","i","d","a","d"," ","e","s"," ","q","u","i","n","c","e","n","a","l">>), Str(<<"N","o"," ","a","p","l","i","c","a">>), NA}>>,
     <<"¿en qué piso se ubica(n) la(s) bodegas que sirven a su empresa o comercio?",
       {Str(<<"1">>), Str(<<"2">>), Str(<<"1","0">>), Num(9), Str(<<"P","i","s","o"," ","3">>),
        Str(<<"S","ó","t","a","n","o">>), Str(<<"1","-","2">>),
        Str(<<"P","i","s","o"," ","N","o","."," ","2">>), NA}>>,
     <<"% mujeres vinculadas",
       {Num(50), Str(<<"5","0">>), Str(<<"n","/","a">>), NA}>>,
     <<"¿el(los) espacio(s) de bodega están ubicados al interior de la zuap?",
       {Str(<<"S","í">>), Str(<<"N","o">>), Str(<<"N","o"," ","a","p","l","i","c","a">>), NA}>> >>

\* the full sheet with up to MaxRows rows answering one question
AnswerSheets ==
  UNION {UNION {{FocusSheet(FullColumns, Answers[q][1], vals) :
                   vals \in [1..n -> Answers[q][2]]} : n \in 0..MaxRows} :
         q \in 1..Len(Answers)}

InitAnswers ==
  /\ raw \in AnswerSheets
  /\ df = raw
  /\ pc = "start"
  /\ err = "none"
  /\ args = [fn |-> "none"]
  /\ files = NoFiles

\* the scripts on sheets that vary in their answers
SpecAnswers == InitAnswers /\ [][NextClean]_vars

(***************************************************************************)
(* The analysis functions as steps: each function is called on the table   *)
(* raw; args names the call and holds its arguments.                       *)
(***************************************************************************)
\* the rows of the tables that answer how the goods come in
UnloadingRows ==
  << <<Str(<<"V","e","n","t","a"," ","a","l"," ","d","e","t","a","l","l","e"," ","d","e"," ","r","o","p","a">>), Str(<<"i","n","g","r","e","s","a"," ","e","n"," ","c","a","m","i","ó","n",","," ","d","e","s","c","a","r","g","a"," ","s","o","b","r","e"," ","l","a"," ","v","í","a">>), Num(5)>>,
     <<Str(<<"V","e","n","t","a"," ","a","l"," ","d","e","t","a","l","l","e"," ","d","e"," ","r","o","p","a">>), Str(<<"i","n","g","r","e","s","a"," ","e","n"," ","c","a","m","i","ó","n",","," ","d","e","s","c","a","r","g","a"," ","s","o","b","r","e"," ","l","a"," ","v","í","a">>), NA>>,
     <<Str(<<"P","r","o","v","e","e","d","o","r">>), Str(<<"I","n","g","r","e","s","a"," ","e","n"," ","C","A","M","I","Ó","N"," ","y"," ","m","o","t","o","c","i","c","l","e","t","a",","," ","i","n","t","e","r","n","a","m","e","n","t","e">>), Num(3)>>,
     <<Str(<<"F","a","b","r","i","c","a","n","t","e">>), Str(<<"a"," ","p","i","e">>), Num(2)>>,
     <<Str(<<"O","t","r","o">>), Str(<<"b","i","c","i","c","l","e","t","a",","," ","p","a","r","q","u","e","a","d","e","r","o">>), Num(1)>>,
     <<NA, Str(<<"c","a","m","i","ó","n">>), Num(4)>>,
     <<Str(<<"V","e","n","t","a","s"," ","p","o","r"," ","i","n","t","e","r","n","e","t",","," ","P","r","o","v","e","e","d","o","r">>), Str(<<"c","a","r","r","e","t","a",","," ","b","a","h","í","a">>), Num(2)>> >>

\* the rows of the tables that answer how deliveries are made
DeliveryRows ==
  << <<Str(<<"V","e","n","t","a"," ","a","l"," ","d","e","t","a","l","l","e"," ","d","e"," ","r","o","p","a">>), Str(<<"N","o"," ","s","e"," ","r","e","a","l","i","z","a","n"," ","d","o","m","i","c","i","l","i","o","s"," ","e","n"," ","c","a","m","i","ó","n">>), Num(5)>>,
     <<Str(<<"P","r","o","v","e","e","d","o","r">>), Str(<<"N","o"," ","s","e"," ","r","e","a","l","i","z","a","n"," ","d","o","m","i","c","i","l","i","o","s">>), Num(3)>>,
     <<Str(<<"P","r","o","v","e","e","d","o","r">>), Str(<<"M","o","t","o","c","i","c","l","e","t","a",","," ","C","a","m","i","o","n","e","t","a">>), Num(2)>>,
     <<Str(<<"F","a","b","r","i","c","a","n","t","e">>), Str(<<"N","i","n","g","u","n","o",","," ","c","a","m","i","ó","n">>), Num(1)>>,
     <<Str(<<"F","a","b","r","i","c","a","n","t","e">>), NA, Num(4)>>,
     <<Str(<<"V","e","n","t","a"," ","a","l"," ","d","e","t","a","l","l","e"," ","d","e"," ","r","o","p","a">>), Str(<<"N","o"," ","s","e"," ","r","e","a","l","i","z","a","n"," ","d","o","m","i","c","i","l","i","o","s",","," ","C","a","m","i","o","n","e","t","a">>), NA>>,
     <<Str(<<"O","t","r","o">>), Str(<<" ","C","a","m","i","n","a","t","a"," ">>), Num(1)>> >>

\* the cleaned tables of the model: up to MaxRows respondents
AnalysisTables ==
  UNION {{Frame(<<Hdr("economic_activity"), Hdr("supply_unloading"), Hdr("employees")>>,
                [r \in 1..n |-> UnloadingRows[pick[r]]]) :
            pick \in [1..n -> 1..Len(UnloadingRows)]}
         \cup
         {Frame(<<Hdr("economic_activity"), Hdr("delivery_transp_mode"), Hdr("employees")>>,
                [r \in 1..n |-> DeliveryRows[pick[r]]]) :
            pick \in [1..n -> 1..Len(DeliveryRows)]} : n \in 0..MaxRows}

\* a function of final_cleaning_survey.py up to its Series.apply calls: KeyError
\* for a column that is not there, AttributeError for x.lower() on no text
Labelled(fn, field, labelled, result) ==
  /\ pc = "start"
  /\ args' = [fn |-> fn]
  /\ IF AnyMissing(raw, <<"economic_activity", field, "employees">>)
     THEN /\ pc' = "analysis_raised"
          /\ err' = "KeyError"
          /\ df' = raw
     ELSE IF LowerRaises(raw, <<"economic_activity", field>>)
     THEN /\ pc' = "analysis_raised"
          /\ err' = "AttributeError"
          /\ df' = raw
     ELSE /\ pc' = labelled
          /\ df' = result
          /\ UNCHANGED err
  /\ UNCHANGED <<raw, files>>

\* transportation_mode, lines 155 to 163
TransportationModeLabels ==
  Labelled("transportation_mode", "supply_unloading", "transp_labelled",
           KeywordLabels(raw, "supply_unloading", "transp_type", transp_mode))

\* transportation_mode, lines 166 to 180
TransportationModeAggregate ==
  /\ pc = "transp_labelled"
  /\ df' = RenameProportions(
             Proportions(reset_index(explode(df, Hdr("transp_type"))),
                         "est_type", "transp_type", "employees"),
             rename, transp_rename1)
  /\ pc' = "transp_done"
  /\ UNCHANGED <<raw, err, args, files>>

\* unloading_location, lines 188 to 196
UnloadingLocationLabels ==
  Labelled("unloading_location", "supply_unloading", "unloading_labelled",
           KeywordLabels(raw, "supply_unloading", "unloading_location", unloading))

\* unloading_location, lines 199 to 214
UnloadingLocationAggregate ==
  /\ pc = "unloading_labelled"
  /\ df' = RenameProportions(
             Proportions(reset_index(explode(df, Hdr("unloading_location"))),
                         "est_type", "unloading_location", "employees"),
             rename, unloading_rename1)
  /\ pc' = "unloading_done"
  /\ UNCHANGED <<raw, err, args, files>>

\* a function that splits its answers, up to the replace: only
\* economic_activity goes through x.lower(); the .str methods take a missing
\* answer as it is and raise AttributeError on a column that holds no text
Unified(fn, field, labelled, result) ==
  /\ pc = "start"
  /\ args' = [fn |-> fn]
  /\ IF AnyMissing(raw, <<"economic_activity", field, "employees">>)
     THEN /\ pc' = "analysis_raised"
          /\ err' = "KeyError"
          /\ df' = raw
     ELSE IF LowerRaises(raw, <<"economic_activity">>) \/ ~IsObjectColumn(Col(raw, Hdr(field)))
     THEN /\ pc' = "analysis_raised"
          /\ err' = "AttributeError"
          /\ df' = raw
     ELSE /\ pc' = labelled
          /\ df' = result
          /\ UNCHANGED err
  /\ UNCHANGED <<raw, files>>

\* traditional_deliveries, lines 412 to 435
TraditionalDeliveriesLabels ==
  Unified("traditional_deliveries", "delivery_transp_mode", "traditional_labelled",
          TraditionalLabels(raw))

\* traditional_deliveries, lines 437 to 446
TraditionalDeliveriesAggregate ==
  /\ pc = "traditional_labelled"
  /\ df' = RenameProportions(
             Proportions(df, "est_type", "delivery_transp_mode", "employees"),
             rename, <<>>)
  /\ pc' = "traditional_done"
  /\ UNCHANGED <<raw, err, args, files>>

\* df['est_type'] = categorize_establishment_type(df)
CategorizeEstablishmentType ==
  /\ pc = "start"
  /\ args' = [fn |-> "categorize_establishment_type"]
  /\ df' = SetCol(raw, Hdr("est_type"), categorize_establishment_type(raw))
  /\ pc' = "categorized"
  /\ UNCHANGED <<raw, err, files>>

\* extract_keywords_from_text(df, column, keywords, normalize) on the table
\* with its establishment types; df[column] raises KeyError
ExtractKeywordsFromText ==
  /\ pc = "categorized"
  /\ \E column \in {"supply_unloading", "delivery_transp_mode"},
        keywords \in {TRANSPORT_MODES, UNLOADING_LOCATIONS},
        normalize \in BOOLEAN :
       /\ args' = [fn |-> "extract_keywords_from_text", column |-> column,
                   keywords |-> keywords, normalize |-> normalize]
       /\ IF ~HasCol(df, Hdr(column))
          THEN /\ pc' = "analysis_raised"
               /\ err' = "KeyError"
               /\ UNCHANGED df
          ELSE /\ df' = extract_keywords_from_text(df, column, keywords, normalize)
               /\ pc' = "extracted"
               /\ UNCHANGED err
  /\ UNCHANGED <<raw, files>>

\* compute_percentage_distributions(df, 'est_type', column + '_keywords')
ComputePercentageDistributions ==
  /\ pc = "extracted"
  /\ df' = compute_percentage_distributions(df, "est_type", args.column \o "_keywords",
                                            "employees")
  /\ pc' = "distributed"
  /\ UNCHANGED <<raw, err, args, files>>

NextAnalysis ==
  \/ TransportationModeLabels
  \/ TransportationModeAggregate
  \/ UnloadingLocationLabels
  \/ UnloadingLocationAggregate
  \/ TraditionalDeliveriesLabels
  \/ TraditionalDeliveriesAggregate
  \/ CategorizeEstablishmentType
  \/ ExtractKeywordsFromText
  \/ ComputePercentageDistributions

InitAnalysis ==
  /\ raw \in AnalysisTables
  /\ df = raw
  /\ pc = "start"
  /\ err = "none"
  /\ args = [fn |-> "none"]
  /\ files = NoFiles

\* the analysis functions on cleaned tables
SpecAnalysis == InitAnalysis /\ [][NextAnalysis]_vars

(***************************************************************************)
(* final_cleaning_survey.py create_cleaned_df_for_r, step by step.  Every  *)
(* exception inside its try block ends in "return None, None".             *)
(***************************************************************************)
\* df_cleaned = dataframe_cleaning(raw_data_path)
CreateLoad ==
  /\ pc = "start"
  /\ args' = [fn |-> "create_cleaned_df_for_r", invoked |-> <<>>,
              processed_datasets |-> <<>>, i |-> 1]
  /\ \E raised \in BOOLEAN :
       IF raised THEN pc' = "r_returned_none" /\ err' = "Exception"
       ELSE pc' = "r_loaded" /\ UNCHANGED err
  /\ UNCHANGED <<raw, df, files>>

\* a write of create_cleaned_df_for_r to the file named path
CreateWrite(path, from, to) ==
  /\ pc = from
  /\ \E outcome \in WriteOutcomes :
       /\ files' = [files EXCEPT ![path] = outcome]
       /\ IF outcome = "complete" THEN pc' = to /\ UNCHANGED err
          ELSE pc' = "r_returned_none" /\ err' = "Exception"
  /\ UNCHANGED <<raw, df, args>>

\* df_cleaned.to_csv(csv_output_path, index=False, encoding='utf-8')
CreateWriteCsv == CreateWrite("cleaned_survey_for_r.csv", "r_loaded", "r_csv")

\* df_cleaned.to_excel(excel_output_path, index=False)
CreateWriteExcel == CreateWrite("cleaned_survey_for_r.xlsx", "r_csv", "r_excel")

\* what one of the eleven functions does with the cleaned table: it returns
\* a table with rows, returns an empty table, or raises
BuildOutcomes == {"table", "empty", "raised"}

\* the key the next try block stores under
NextBuilder == PROCESSED[Len(args.invoked) + 1]

\* a try block without its "except Exception": the exception reaches the
\* handler of the function
CreateBuildUncaught ==
  /\ pc = "r_excel"
  /\ Len(args.invoked) < Len(PROCESSED)
  /\ \E outcome \in BuildOutcomes :
       /\ args' = [args EXCEPT
                     !.invoked = Append(@, NextBuilder),
                     !.processed_datasets =
                        IF outcome = "raised" THEN @ ELSE Append(@, <<NextBuilder, outcome>>)]
       /\ IF outcome = "raised" THEN pc' = "r_returned_none" /\ err' = "Exception"
          ELSE UNCHANGED <<pc, err>>
  /\ UNCHANGED <<raw, df, files>>

\* one of the eleven try blocks: processed_datasets[name] = function(df_cleaned),
\* and an exception of the function is caught and printed
CreateBuild ==
  /\ pc = "r_excel"
  /\ Len(args.invoked) < Len(PROCESSED)
  /\ \E outcome \in BuildOutcomes :
       args' = [args EXCEPT
                  !.invoked = Append(@, NextBuilder),
                  !.processed_datasets =
                     IF outcome = "raised" THEN @ ELSE Append(@, <<NextBuilder, outcome>>)]
  /\ UNCHANGED <<raw, df, pc, err, files>>

\* with pd.ExcelWriter(excel_processed_path, engine='openpyxl') as writer
CreateWriteWorkbook ==
  /\ pc = "r_excel"
  /\ Len(args.invoked) = Len(PROCESSED)
  /\ \E outcome \in WriteOutcomes :
       /\ files' = [files EXCEPT !["processed_datasets_for_r.xlsx"] = outcome]
       /\ IF outcome = "complete" THEN pc' = "r_workbook" /\ UNCHANGED err
          ELSE pc' = "r_returned_none" /\ err' = "Exception"
  /\ UNCHANGED <<raw, df, args>>

\* the body of "for name, dataset in processed_datasets.items()": an empty
\* dataset is passed over, another one goes through
\* dataset.to_csv(csv_path, index=True, encoding='utf-8')
CreateWriteDataset ==
  /\ pc = "r_workbook"
  /\ args.i <= Len(args.processed_datasets)
  /\ LET item == args.processed_datasets[args.i]
     IN IF item[2] = "empty"
        THEN /\ args' = [args EXCEPT !.i = @ + 1]
             /\ UNCHANGED <<pc, err, files>>
        ELSE \E outcome \in WriteOutcomes :
               /\ files' = [files EXCEPT ![ProcessedCsv(item[1])] = outcome]
               /\ IF outcome = "complete"
                  THEN pc' = "r_workbook" /\ args' = [args EXCEPT !.i = @ + 1] /\ UNCHANGED err
                  ELSE pc' = "r_returned_none" /\ err' = "Exception" /\ UNCHANGED args
  /\ UNCHANGED <<raw, df>>

\* return df_cleaned, processed_datasets
CreateReturn ==
  /\ pc = "r_workbook"
  /\ args.i > Len(args.processed_datasets)
  /\ pc' = "r_returned"
  /\ UNCHANGED <<raw, df, err, args, files>>

\* unified.py, the first save_analysis_outputs: the keys of the saved_files
\* it returns when every write succeeds; a format without a branch is
\* passed over by "continue"
save_analysis_outputs_first(formats) == SelectSeq(formats, LAMBDA fmt : fmt \in FORMATS)

(***************************************************************************)
(* unified.py save_analysis_outputs, step by step: it catches nothing.     *)
(***************************************************************************)
\* datasets = create_analysis_datasets(df_clean)
SaveCreate ==
  /\ pc = "start"
  /\ \E formats \in FormatLists, raised \in BOOLEAN :
       /\ args' = [fn |-> "save_analysis_outputs", formats |-> formats, d |-> 1, f |-> 1,
                   saved_files |-> <<>>]
       /\ IF raised THEN pc' = "save_raised" /\ err' = "Exception"
          ELSE pc' = "saving" /\ UNCHANGED err
  /\ UNCHANGED <<raw, df, files>>

\* saved_files[f"{dataset_name}_{fmt}"] = filepath, and the loop variables
\* after one more format
SaveAdvance(a) ==
  LET saved == Append(a.saved_files,
                      <<DATASETS[a.d] \o "_" \o a.formats[a.f],
                        SurveyFile(DATASETS[a.d], a.formats[a.f])>>)
  IN IF a.f < Len(a.formats) THEN [a EXCEPT !.f = @ + 1, !.saved_files = saved]
     ELSE [a EXCEPT !.d = @ + 1, !.f = 1, !.saved_files = saved]

\* the body of "for fmt in formats": a format without a branch writes
\* nothing and goes on to the assignment of saved_files like the others
SaveWrite ==
  /\ pc = "saving"
  /\ args.d <= Len(DATASETS)
  /\ LET fmt == args.formats[args.f]
     IN IF fmt \notin FORMATS
        THEN /\ args' = SaveAdvance(args)
             /\ UNCHANGED <<pc, err, files>>
        ELSE \E outcome \in WriteOutcomes :
               /\ files' = [files EXCEPT ![SurveyFile(DATASETS[args.d], fmt)] = outcome]
               /\ IF outcome = "complete"
                  THEN args' = SaveAdvance(args) /\ UNCHANGED <<pc, err>>
                  ELSE pc' = "save_raised" /\ err' = "Exception" /\ UNCHANGED args
  /\ UNCHANGED <<raw, df>>

\* return saved_files
SaveReturn ==
  /\ pc = "saving"
  /\ args.d > Len(DATASETS)
  /\ pc' = "saved"
  /\ UNCHANGED <<raw, df, err, args, files>>

NextIO ==
  \/ CreateLoad
  \/ CreateWriteCsv
  \/ CreateWriteExcel
  \/ CreateBuild
  \/ CreateWriteWorkbook
  \/ CreateWriteDataset
  \/ CreateReturn
  \/ SaveCreate
  \/ SaveWrite
  \/ SaveReturn

InitIO ==
  /\ raw = Frame(<<>>, <<>>)
  /\ df = raw
  /\ pc = "start"
  /\ err = "none"
  /\ args = [fn |-> "none"]
  /\ files = NoFiles

\* the scripts that write the output directory
SpecIO == InitIO /\ [][NextIO]_vars

(***************************************************************************)
(* _normalize_text applied to a value, and applied again to its result.    *)
(***************************************************************************)
MaxLen == 3

\* the characters of the texts: letters in both cases, with and without
\* accent, and white space
TextChars == {"a", "B", "á", "Ñ", " ", "\t"}

\* the values _normalize_text is called with: a text, a number, a missing cell
TextInputs ==
  {Str(s) : s \in UNION {[1..n -> TextChars] : n \in 0..MaxLen}} \cup {NA, Num(10)}

\* _normalize_text(s)
NormalizeTextOnce ==
  /\ pc = "start"
  /\ df' = Frame(raw.columns, <<<<Str(NormalizeText(raw.rows[1][1]))>>>>)
  /\ pc' = "normalized"
  /\ UNCHANGED <<raw, err, args, files>>

\* _normalize_text(_normalize_text(s))
NormalizeTextAgain ==
  /\ pc = "normalized"
  /\ df' = Frame(raw.columns, <<<<Str(NormalizeText(df.rows[1][1]))>>>>)
  /\ pc' = "normalized_again"
  /\ UNCHANGED <<raw, err, args, files>>

NextText ==
  \/ NormalizeTextOnce
  \/ NormalizeTextAgain

InitText ==
  /\ raw \in {Frame(<<Hdr("text")>>, <<<<x>>>>) : x \in TextInputs}
  /\ df = raw
  /\ pc = "start"
  /\ err = "none"
  /\ args = [fn |-> "none"]
  /\ files = NoFiles

\* _normalize_text on the values of the model
SpecText == InitText /\ [][NextText]_vars

(***************************************************************************)
(* translate_all_multi_labels on a table of one text of day names.         *)
(***************************************************************************)
MaxPieces == 5

\* the pieces the texts are made of: two keys of DAY_EN, a word that is no
\* key, and the characters of the separators
TextPieces == {<<"L","u","n","e","s">>, <<"M","a","r","t","e","s">>, <<"F","e","r","i","a","d","o">>, <<" ">>, <<",">>, <<";">>}

\* the values translate_multi is called with
MultiTexts ==
  {Str(Join(p, <<>>)) : p \in UNION {[1..n -> TextPieces] : n \in 0..MaxPieces}}
  \cup {NA, Num(5)}

\* df_translated = translate_all_multi_labels(df)
TranslateAllMultiLabels ==
  /\ pc = "start"
  /\ args' = [fn |-> "translate_all_multi_labels"]
  /\ df' = translate_all_multi_labels(raw)
  /\ pc' = "translated"
  /\ UNCHANGED <<raw, err, files>>

\* the caller reads the result
TranslateMultiReturn ==
  /\ pc = "translated"
  /\ pc' = "translate_returned"
  /\ UNCHANGED <<raw, df, err, args, files>>

NextTranslate ==
  \/ TranslateAllMultiLabels
  \/ TranslateMultiReturn

InitTranslate ==
  /\ raw \in {Frame(<<Hdr("supply_week")>>, <<<<x>>>>) : x \in MultiTexts}
  /\ df = raw
  /\ pc = "start"
  /\ err = "none"
  /\ args = [fn |-> "none"]
  /\ files = NoFiles

\* translate_multi on the texts of the model
SpecTranslate == InitTranslate /\ [][NextTranslate]_vars

(***************************************************************************)
(* The two recodings of tokens: translate_all_multi_labels on the texts of *)
(* day names and traditional_deliveries on the tables of deliveries.       *)
(***************************************************************************)
NextTokens ==
  \/ TranslateAllMultiLabels
  \/ TranslateMultiReturn
  \/ TraditionalDeliveriesLabels
  \/ TraditionalDeliveriesAggregate

InitTokens ==
  /\ raw \in {Frame(<<Hdr("supply_week")>>, <<<<x>>>>) : x \in MultiTexts}
             \cup {t \in AnalysisTables : HasCol(t, Hdr("delivery_transp_mode"))}
  /\ df = raw
  /\ pc = "start"
  /\ err = "none"
  /\ args = [fn |-> "none"]
  /\ files = NoFiles

SpecTokens == InitTokens /\ [][NextTokens]_vars

(***************************************************************************)
(* Calls that take the table raw and return the table df, and a caller     *)
(* that goes on to write into the table it got back.                       *)
(***************************************************************************)
\* df_encoded = create_one_hot_encoding(df, column, MAPS[column])
CreateOneHotEncoding ==
  /\ pc = "start"
  /\ \E k \in 1..Len(MAPS) :
       /\ args' = [fn |-> "create_one_hot_encoding", column |-> MAPS[k][1]]
       /\ df' = create_one_hot_encoding(raw, MAPS[k][1], MAPS[k][2])
  /\ pc' = "encoded"
  /\ UNCHANGED <<raw, err, files>>

\* df_famd = prepare_famd_dataset(df)
PrepareFamdDataset ==
  /\ pc = "start"
  /\ args' = [fn |-> "prepare_famd_dataset"]
  /\ df' = prepare_famd_dataset(raw)
  /\ pc' = "famd_ready"
  /\ UNCHANGED <<raw, err, files>>

\* the table the call returned is the object it was given: "return df" of
\* create_one_hot_encoding; every other call returns a copy
ReturnedInput ==
  /\ args.fn = "create_one_hot_encoding"
  /\ ~HasCol(raw, Hdr(args.column))

\* the caller assigns a column of the table it got back, as
\* create_analysis_datasets does with establishment_type_clean; the
\* assignment is seen through every name of the same object
ResultWritten ==
  /\ pc \in {"encoded", "famd_ready", "translated", "transp_labelled"}
  /\ df' = SetCol(df, Hdr("establishment_type_clean"), categorize_establishment_type(df))
  /\ raw' = IF ReturnedInput THEN df' ELSE raw
  /\ pc' = "written"
  /\ UNCHANGED <<err, args, files>>

NextCalls ==
  \/ TranslateAllMultiLabels
  \/ CreateOneHotEncoding
  \/ PrepareFamdDataset
  \/ TransportationModeLabels
  \/ ResultWritten

InitCalls ==
  /\ raw \in {t \in AnalysisTables : HasCol(t, Hdr("supply_unloading"))}
             \cup {Frame(<<Hdr("supply_week")>>, <<<<x>>>>) :
                     x \in {NA, Str(<<"L","u","n","e","s",","," ","F","e","r","i","a","d","o">>), Str(<<"M","o","n","d","a","y">>)}}
  /\ df = raw
  /\ pc = "start"
  /\ err = "none"
  /\ args = [fn |-> "none"]
  /\ files = NoFiles

SpecCalls == InitCalls /\ [][NextCalls]_vars

(***************************************************************************)
(* unified.py clean_survey_for_analysis: the steps of clean_survey, then   *)
(* the two blocks its keyword arguments switch on.                         *)
(***************************************************************************)
\* if add_derived_columns: ...
ForAnalysisDerive ==
  /\ pc = "returned"
  /\ args.fn = "clean_survey_for_analysis"
  /\ df' = IF args.add_derived_columns THEN AddDerivedColumns(df) ELSE df
  /\ pc' = "derived"
  /\ UNCHANGED <<raw, err, args, files>>

\* if return_analysis_ready: ...; return df.  df['est_type'] raises KeyError
\* on a table without that column
ForAnalysisReturn ==
  /\ pc = "derived"
  /\ IF ~args.return_analysis_ready
     THEN pc' = "for_analysis_returned" /\ UNCHANGED <<df, err>>
     ELSE IF ~HasCol(df, Hdr("est_type"))
     THEN pc' = "for_analysis_raised" /\ err' = "KeyError" /\ UNCHANGED df
     ELSE pc' = "for_analysis_returned" /\ df' = AnalysisReady(df) /\ UNCHANGED err
  /\ UNCHANGED <<raw, args, files>>

\* the answers of the respondents of the model to the questions on the
\* economic activity, the warehouse in the ZUAP, the number of employees and
\* the supplies per week
Respondents ==
  << <<Str(<<"P","r","o","v","e","e","d","o","r">>), Str(<<"S","í">>), Num(5), Num(2)>>,
     <<Str(<<"V","e","n","t","a"," ","a","l"," ","d","e","t","a","l","l","e"," ","d","e"," ","r","o","p","a">>), Str(<<"N","o">>), NA, Str(<<"1"," ","v","e","z"," ","p","o","r"," ","s","e","m","a","n","a">>)>>,
     <<Str(<<"F","a","b","r","i","c","a","n","t","e">>), Str(<<"N","o"," ","a","p","l","i","c","a">>), Str(<<"n","/","a">>), Str(<<"6"," ","o"," ","m","á","s">>)>>,
     <<NA, Str(<<"S","í">>), Num(3), NA>>,
     <<Str(<<"O","t","r","o">>), NA, Num(1), Str(<<"5">>)>>,
     <<Str(<<"V","e","n","t","a","s"," ","p","o","r"," ","i","n","t","e","r","n","e","t">>), Str(<<" ","S","I"," ">>), Num(2), Num(5)>>,
     <<Str(<<"P","r","o","v","e","e","d","o","r">>), NA, NA, Str(<<"N","o"," ","a","p","l","i","c","a">>)>>,
     <<Str(<<"F","a","b","r","i","c","a","n","t","e">>), Str(<<"N","O">>), Num(4), NA>>,
     <<Str(<<"F","a","b","r","i","c","a","n","t","e"," ","y"," ","p","r","o","v","e","e","d","o","r"," ","d","e"," ","t","e","l","a","s">>), Str(<<"N","o">>), Num(2), Num(3)>> >>

\* the questions the respondents answer, in the order of their answers
RespondentQuestions ==
  << "por favor, indique dentro de la siguientes categorías, cuál se relaciona con la actividad realizada en su comercio:",
     "¿el(los) espacio(s) de bodega están ubicados al interior de la zuap?",
     "por favor indique el número de colaboradores que tiene su empresa o comercio",
     "¿cuántas veces por semana abastece su establecimiento?" >>

\* the full sheet with the given respondents
RespondentSheet(rows) ==
  Frame(FullColumns,
        [r \in 1..Len(rows) |->
           [i \in 1..Len(FullColumns) |->
              IF \E q \in 1..Len(RespondentQuestions) : RespondentQuestions[q] = FullColumns[i].text
              THEN rows[r][CHOOSE q \in 1..Len(RespondentQuestions) :
                             RespondentQuestions[q] = FullColumns[i].text]
              ELSE DefaultCell(FullColumns[i])]])

RespondentSheets ==
  UNION {{RespondentSheet([r \in 1..n |-> Respondents[pick[r]]]) :
            pick \in [1..n -> 1..Len(Respondents)]} : n \in 0..MaxRows}

NextForAnalysis ==
  \/ CleanSurveyRead
  \/ CleanSurveyDrop
  \/ CleanSurveyRename
  \/ CleanSurveyTidy
  \/ CleanSurveyTypes
  \/ CleanSurveyNormalise
  \/ CleanSurveyEcon
  \/ ForAnalysisDerive
  \/ ForAnalysisReturn

InitForAnalysis ==
  /\ raw \in RespondentSheets
  /\ df = raw
  /\ pc = "start"
  /\ err = "none"
  /\ args \in [fn : {"clean_survey_for_analysis"}, add_derived_columns : BOOLEAN,
               return_analysis_ready : BOOLEAN]
  /\ files = NoFiles

\* clean_survey_for_analysis on sheets of respondents
SpecForAnalysis == InitForAnalysis /\ [][NextForAnalysis]_vars

(***************************************************************************)
(* datacleaning.py from "typday_supply" on, statement by statement, on the *)
(* columns these statements read.  The .str accessor raises AttributeError *)
(* on a column that holds no text.                                         *)
(***************************************************************************)
\* a statement that reads df[source].str and stores result
DatacleaningStep(from, to, source, result) ==
  /\ pc = from
  /\ IF IsObjectColumn(Col(df, Hdr(source)))
     THEN pc' = to /\ df' = result /\ UNCHANGED err
     ELSE pc' = "datacleaning_raised" /\ err' = "AttributeError" /\ UNCHANGED df
  /\ UNCHANGED <<raw, args, files>>

DatacleaningTypday ==
  DatacleaningStep("start", "typday", "supply_day",
    SetCol(df, Hdr("typday_supply"),
           [r \in 1..Len(df.rows) |-> typday_supply(Col(df, Hdr("supply_day"))[r])]))

DatacleaningSchedule ==
  DatacleaningStep("typday", "schedule", "supply_schedule",
    SetCol(df, Hdr("supply_schedule"),
           [r \in 1..Len(df.rows) |-> StrReplaceHours(Col(df, Hdr("supply_schedule"))[r])]))

DatacleaningSupply ==
  DatacleaningStep("schedule", "supply_indicators", "supply_entrance",
    Indicators(df, "supply_entrance", supply_indicators, 1))

DatacleaningStorage ==
  DatacleaningStep("supply_indicators", "storage_indicators", "storage_equipement",
    Indicators(df, "storage_equipement", storage_indicators, 1))

DatacleaningDelivery ==
  DatacleaningStep("storage_indicators", "delivery_corrected", "delivery_mean",
    num_delivery_corrected(df))

\* the answers of the respondents of the model on the supply days, the
\* schedule, the way the goods come in, the equipment, the deliveries and
\* their number
IndicatorRows ==
  << <<Str(<<"L","u","n","e","s",","," ","M","a","r","t","e","s">>), Str(<<"8",":","0","0"," ","-"," ","1","0",":","0","0">>), Str(<<"E","n"," ","c","a","m","i","ó","n",","," ","s","o","b","r","e"," ","l","a"," ","v","í","a">>),
       Str(<<"C","a","r","r","e","t","i","l","l","a",","," ","R","a","m","p","a"," ","f","i","j","a">>), Str(<<"M","o","t","o","c","i","c","l","e","t","a">>), Num(3)>>,
     <<Str(<<"S","á","b","a","d","o">>), Str(<<"1","4",":","0","0">>), Str(<<"m","o","t","o","c","i","c","l","e","t","a"," ","y"," ","b","i","c","i","c","l","e","t","a">>),
       Str(<<"N","i","n","g","u","n","o">>), Str(<<"N","o"," ","s","e"," ","r","e","a","l","i","z","a","n"," ","d","o","m","i","c","i","l","i","o","s">>), Num(0)>>,
     <<Str(<<"J","u","e","v","e","s">>), NA, Str(<<"v","e","h","í","c","u","l","o"," ","p","a","r","t","i","c","u","l","a","r">>),
       Str(<<"E","l","e","v","a","d","o","r">>), Str(<<"B","i","c","i","c","l","e","t","a">>), Num(12)>>,
     <<NA, Str(<<"6",":","0","0">>), NA, NA, NA, NA>>,
     <<Str(<<"M","i","é","r","c","o","l","e","s",","," ","V","i","e","r","n","e","s">>), Str(<<"1","0",":","0","0">>), Str(<<"c","a","r","r","e","t","a",","," ","a","n","d","é","n">>),
       NA, Str(<<"N","o"," ","s","e"," ","r","e","a","l","i","z","a","n"," ","d","o","m","i","c","i","l","i","o","s">>), Num(2)>>,
     <<Str(<<"D","o","m","i","n","g","o">>), Str(<<"9",":","0","0">>), NA,
       Str(<<"P","a","r","q","u","e","a","d","e","r","o"," ","i","n","t","e","r","n","o">>), NA, Num(5)>> >>

IndicatorTables ==
  UNION {{Frame(<<Hdr("supply_day"), Hdr("supply_schedule"), Hdr("supply_entrance"),
                  Hdr("storage_equipement"), Hdr("delivery_mean"), Hdr("num_delivery")>>,
                [r \in 1..n |-> IndicatorRows[pick[r]]]) :
            pick \in [1..n -> 1..Len(IndicatorRows)]} : n \in 0..MaxRows}

NextDatacleaning ==
  \/ DatacleaningTypday
  \/ DatacleaningSchedule
  \/ DatacleaningSupply
  \/ DatacleaningStorage
  \/ DatacleaningDelivery

InitDatacleaning ==
  /\ raw \in IndicatorTables
  /\ df = raw
  /\ pc = "start"
  /\ err = "none"
  /\ args = [fn |-> "datacleaning"]
  /\ files = NoFiles

\* datacleaning.py on the renamed sheet
SpecDatacleaning == InitDatacleaning /\ [][NextDatacleaning]_vars

(***************************************************************************)
(* The three functions of final_cleaning_survey.py that replace an answer  *)
(* of the "ninguno" family before they split it.                           *)
(***************************************************************************)
\* unloading_equipement, lines 222 to 247
UnloadingEquipementLabels ==
  Unified("unloading_equipement", "warehouse_equipement", "equipement_labelled",
          UnifiedLabels(raw, "warehouse_equipement", equipement_to_unify, <<"N","o">>))

\* e_commerce_deliveries, lines 367 to 393
ECommerceDeliveriesLabels ==
  Unified("e_commerce_deliveries", "online_trans_mode", "online_labelled",
          UnifiedLabels(raw, "online_trans_mode", online_to_unify, <<"N","o"," ","d","e","l","i","v","e","r","i","e","s">>))

\* the rows of the tables that answer which equipment the warehouse has
EquipementRows ==
  << <<Str(<<"P","r","o","v","e","e","d","o","r">>), Str(<<"N","i","n","g","u","n","o">>), Num(3)>>,
     <<Str(<<"F","a","b","r","i","c","a","n","t","e">>), Str(<<"C","a","r","r","e","t","i","l","l","a",","," ","E","l","e","v","a","d","o","r">>), Num(8)>>,
     <<Str(<<"V","e","n","t","a"," ","a","l"," ","d","e","t","a","l","l","e"," ","d","e"," ","r","o","p","a">>), Str(<<"N","I","N","G","U","N","A",","," ","C","a","r","r","e","t","i","l","l","a">>), Num(2)>>,
     <<Str(<<"P","r","o","v","e","e","d","o","r">>), Str(<<" ","R","a","m","p","a"," ","f","i","j","a",","," ","n","i","n","g","u","n","o"," ","d","e"," ","l","o","s"," ","a","n","t","e","r","i","o","r","e","s"," ">>), Num(1)>>,
     <<Str(<<"O","t","r","o">>), Str(<<"n","o"," ","p","o","s","e","e">>), Num(1)>>,
     <<Str(<<"F","a","b","r","i","c","a","n","t","e">>), Str(<<"M","o","n","t","a","c","a","r","g","a","s">>), NA>>,
     <<Str(<<"P","r","o","v","e","e","d","o","r">>), NA, Num(2)>> >>

\* the rows of the tables that answer how the sales by internet are sent
OnlineRows ==
  << <<Str(<<"V","e","n","t","a","s"," ","p","o","r"," ","i","n","t","e","r","n","e","t">>), Str(<<"M","o","t","o","c","i","c","l","e","t","a",","," ","T","r","a","n","s","p","o","r","t","a","d","o","r","a">>), Num(3)>>,
     <<Str(<<"P","r","o","v","e","e","d","o","r">>), Str(<<"N","i","n","g","u","n","o">>), Num(2)>>,
     <<Str(<<"V","e","n","t","a"," ","a","l"," ","d","e","t","a","l","l","e"," ","d","e"," ","r","o","p","a">>), Str(<<"M","o","t","o","c","i","c","l","e","t","a",","," ","n","i","n","g","u","n","o"," ","m","á","s">>), Num(5)>>,
     <<Str(<<"F","a","b","r","i","c","a","n","t","e">>), Str(<<"N","o"," ","s","e"," ","r","e","a","l","i","z","a","n"," ","v","e","n","t","a","s"," ","p","o","r"," ","i","n","t","e","r","n","e","t">>), Num(1)>>,
     <<Str(<<"F","a","b","r","i","c","a","n","t","e">>), Str(<<"B","i","c","i","c","l","e","t","a"," ","d","e"," ","c","a","r","g","a",",","N","i","n","g","u","n","a"," ","o","t","r","a">>), Num(4)>>,
     <<Str(<<"O","t","r","o">>), Str(<<"V","a","n">>), NA>>,
     <<NA, Str(<<"M","o","t","o","c","i","c","l","e","t","a">>), Num(2)>> >>

NoneTables ==
  UNION {{Frame(<<Hdr("economic_activity"), Hdr("warehouse_equipement"), Hdr("employees")>>,
                [r \in 1..n |-> EquipementRows[pick[r]]]) :
            pick \in [1..n -> 1..Len(EquipementRows)]}
         \cup
         {Frame(<<Hdr("economic_activity"), Hdr("online_trans_mode"), Hdr("employees")>>,
                [r \in 1..n |-> OnlineRows[pick[r]]]) :
            pick \in [1..n -> 1..Len(OnlineRows)]}
         \cup
         {Frame(<<Hdr("economic_activity"), Hdr("delivery_transp_mode"), Hdr("employees")>>,
                [r \in 1..n |-> DeliveryRows[pick[r]]]) :
            pick \in [1..n -> 1..Len(DeliveryRows)]} : n \in 0..MaxRows}

NextNone ==
  \/ UnloadingEquipementLabels
  \/ ECommerceDeliveriesLabels
  \/ TraditionalDeliveriesLabels

InitNone ==
  /\ raw \in NoneTables
  /\ df = raw
  /\ pc = "start"
  /\ err = "none"
  /\ args = [fn |-> "none"]
  /\ files = NoFiles

SpecNone == InitNone /\ [][NextNone]_vars

(***************************************************************************)
(* final_cleaning_survey.py supply_frequency and warehouse_in_zuap: the    *)
(* tables with a fixed order of their columns.                             *)
(***************************************************************************)
\* a function that reads field and returns the table result
Ordered(fn, field, done, result) ==
  /\ pc = "start"
  /\ args' = [fn |-> fn]
  /\ IF AnyMissing(raw, <<"economic_activity", field, "employees">>)
     THEN pc' = "analysis_raised" /\ err' = "KeyError" /\ df' = raw
     ELSE IF LowerRaises(raw, <<"economic_activity">>)
     THEN pc' = "analysis_raised" /\ err' = "AttributeError" /\ df' = raw
     ELSE pc' = done /\ df' = result /\ UNCHANGED err
  /\ UNCHANGED <<raw, files>>

SupplyFrequency ==
  Ordered("supply_frequency", "supply_week", "frequency_done", supply_frequency(raw))

WarehouseInZuap ==
  Ordered("warehouse_in_zuap", "zuap_warehouse", "zuap_done", warehouse_in_zuap(raw))

\* the rows of the tables that answer how often the establishment is supplied
FrequencyRows ==
  << <<Str(<<"P","r","o","v","e","e","d","o","r">>), Str(<<"1"," ","v","e","z"," ","p","o","r"," ","s","e","m","a","n","a">>), Num(3)>>,
     <<Str(<<"P","r","o","v","e","e","d","o","r">>), Num(2), Num(5)>>,
     <<Str(<<"F","a","b","r","i","c","a","n","t","e">>), Num(5), Num(1)>>,
     <<Str(<<"F","a","b","r","i","c","a","n","t","e">>), Str(<<"L","a"," ","p","e","r","i","o","d","i","c","i","d","a","d"," ","e","s"," ","m","e","n","s","u","a","l">>), Num(2)>>,
     <<Str(<<"V","e","n","t","a"," ","a","l"," ","d","e","t","a","l","l","e"," ","d","e"," ","r","o","p","a">>), Str(<<"6"," ","o"," ","m","á","s">>), Num(4)>>,
     <<Str(<<"V","e","n","t","a"," ","a","l"," ","d","e","t","a","l","l","e"," ","d","e"," ","r","o","p","a">>), Str(<<"3">>), Num(2)>>,
     <<Str(<<"P","r","o","v","e","e","d","o","r">>), Str(<<"N","o"," ","a","p","l","i","c","a">>), Num(1)>>,
     <<NA, Num(2), Num(1)>> >>

\* the rows of the tables that answer whether the warehouse is in the ZUAP
ZuapRows ==
  << <<Str(<<"P","r","o","v","e","e","d","o","r">>), Str(<<"S","í">>), Num(3)>>,
     <<Str(<<"P","r","o","v","e","e","d","o","r">>), Str(<<"N","o">>), Num(5)>>,
     <<Str(<<"F","a","b","r","i","c","a","n","t","e">>), Str(<<"N","o"," ","a","p","l","i","c","a">>), Num(1)>>,
     <<Str(<<"F","a","b","r","i","c","a","n","t","e">>), Str(<<"S","í">>), Num(2)>>,
     <<Str(<<"V","e","n","t","a"," ","a","l"," ","d","e","t","a","l","l","e"," ","d","e"," ","r","o","p","a">>), Str(<<"N","o">>), Num(4)>>,
     <<Str(<<"V","e","n","t","a","s"," ","p","o","r"," ","i","n","t","e","r","n","e","t">>), NA, Num(2)>>,
     <<NA, Str(<<"S","í">>), Num(1)>> >>

OrderedTables ==
  UNION {{Frame(<<Hdr("economic_activity"), Hdr("supply_week"), Hdr("employees")>>,
                [r \in 1..n |-> FrequencyRows[pick[r]]]) :
            pick \in [1..n -> 1..Len(FrequencyRows)]}
         \cup
         {Frame(<<Hdr("economic_activity"), Hdr("zuap_warehouse"), Hdr("employees")>>,
                [r \in 1..n |-> ZuapRows[pick[r]]]) :
            pick \in [1..n -> 1..Len(ZuapRows)]} : n \in 0..MaxRows}

NextOrdered ==
  \/ SupplyFrequency
  \/ WarehouseInZuap

InitOrdered ==
  /\ raw \in OrderedTables
  /\ df = raw
  /\ pc = "start"
  /\ err = "none"
  /\ args = [fn |-> "none"]
  /\ files = NoFiles

SpecOrdered == InitOrdered /\ [][NextOrdered]_vars

(***************************************************************************)
(* Properties of the scripts.                                              *)
(***************************************************************************)
\* the columns clean_survey adds itself
DerivedColumns ==
  {"female_percentage", "pct_female_in_distribution", "pct_female_with_contract",
   "supply_frequency_num", "econ_main", "econ_sub1", "econ_sub2"}

\* C1: every column of the table clean_survey returns is a target of the
\* rename map or a column the function adds itself; no header of the sheet
\* survives in the output.
C1_OutputColumnsAreTargets ==
  pc = "returned" =>
    \A i \in 1..Len(df.columns) :
      /\ df.columns[i].text \in RenameTargets \cup DerivedColumns
      /\ \A j \in 1..Len(raw.columns) : df.columns[i].text # raw.columns[j].text

\* the labels of a table, by their text
ColumnTexts(d) == {d.columns[i].text : i \in 1..Len(d.columns)}

\* the texts of the labels of the sheet, trimmed and in lower case
SheetTexts == ColumnTexts(raw)

\* C2: dropping the excluded columns is best-effort in each of the three
\* cleaning steps: when labels of the exclusion list are absent from the
\* sheet the step completes without error, and exactly the listed labels
\* that are present are removed.
C2_DropIsBestEffort ==
  /\ pc # "final_raised"
  /\ pc = "dropped" => ColumnTexts(df) = SheetTexts \ DROP_COLS
  /\ pc = "final_cleaned" =>
       Len(df.columns) = Cardinality(SheetTexts \ SeqToSet(col_out))
  /\ pc = "survey_cleaned" =>
       Len(df.columns) = Cardinality(SheetTexts \ SeqToSet(drop_cols))

\* no two rows of the table are equal in every column
NoDuplicateRows(d) ==
  \A i, j \in 1..Len(d.rows) : d.rows[i] = d.rows[j] => i = j

\* C3: the table clean_survey returns has no two equal rows, after the type
\* coercion and the text normalisation that follow the de-duplication.
C3_NoDuplicateRowsReturned == pc = "returned" => NoDuplicateRows(df)

\* the phrase datacleaning.py takes for "no deliveries are made"
NoActivityPhrase == <<"N","o"," ","s","e"," ","r","e","a","l","i","z","a","n">>

\* the answer names a vehicle: a word of transp_mode, or a key of to_unify
\* that stands for a way to deliver
NamesVehicle(text) ==
  \/ KeywordsIn(transp_mode, text) # <<>>
  \/ \E i \in 1..Len(to_unify) :
       /\ to_unify[i][2] # <<"N","o"," ","d","e","l","i","v","e","r","i","e","s">>
       /\ Contains(Lower(text), Lower(to_unify[i][1]))

\* the cells under the label h of the rows of d that carry the index label i
LabelsOf(d, h, i) ==
  {Col(d, h)[r] : r \in {q \in 1..Len(d.rows) : d.index[q] = i}}

\* C4: in traditional_deliveries an answer that holds the no-activity phrase
\* together with a vehicle keyword resolves to the one label 'No deliveries'
\* and to no vehicle label.
C4_NoActivityShortCircuits ==
  pc = "traditional_labelled" =>
    \A r \in 1..Len(raw.rows) :
      LET x == Col(raw, Hdr("delivery_transp_mode"))[r]
      IN (/\ x.k = "str"
          /\ Contains(Lower(x.s), Lower(NoActivityPhrase))
          /\ NamesVehicle(x.s))
         => LabelsOf(df, Hdr("delivery_transp_mode"), raw.index[r])
              = {Str(<<"N","o"," ","d","e","l","i","v","e","r","i","e","s">>)}

\* the words of the vocabulary that occur in the text, whatever the casing
Occurring(words, text) == {w \in SeqToSet(words) : Contains(Lower(text), Lower(w))}

\* the keyword cells of the rows of d that come from the row of the answers
KeywordCells(d, answers, column) ==
  {Col(d, Hdr(column \o "_keywords"))[q] :
     q \in {p \in 1..Len(d.rows) :
              \A c \in 1..Len(raw.columns) :
                d.rows[p][ColIndex(d, raw.columns[c])] = answers[c]}}

\* C5: extract_keywords_from_text gives every row exactly the words of the
\* vocabulary that occur in its answer as case-insensitive substrings (one
\* missing cell when none occurs), with normalize set or not.
C5_KeywordsAreSubstrings ==
  pc = "extracted" =>
    \A r \in 1..Len(raw.rows) :
      LET found == Occurring(args.keywords, StrOf(Col(raw, Hdr(args.column))[r]))
      IN KeywordCells(df, raw.rows[r], args.column)
           = IF found = {} THEN {NA} ELSE {Str(w) : w \in found}

\* the row of the example
ExampleActivity == Str(<<"V","e","n","t","a"," ","a","l"," ","d","e","t","a","l","l","e"," ","d","e"," ","r","o","p","a">>)
ExampleUnloading == Str(<<"i","n","g","r","e","s","a"," ","e","n"," ","c","a","m","i","ó","n",","," ","d","e","s","c","a","r","g","a"," ","s","o","b","r","e"," ","l","a"," ","v","í","a">>)

\* the rows of d that hold the example
ExampleRows(d) ==
  {r \in 1..Len(d.rows) :
     /\ HasCol(d, Hdr("supply_unloading"))
     /\ Col(d, Hdr("economic_activity"))[r] = ExampleActivity
     /\ Col(d, Hdr("supply_unloading"))[r] = ExampleUnloading}

\* C6: the row with economic_activity 'Venta al detalle de ropa' and
\* supply_unloading 'ingresa en camión, descarga sobre la vía' gets the
\* establishment type 'Venta al detalle', the one transport label camión
\* (Truck) and the one unloading label sobre la vía (On the road), in the
\* functions of final_cleaning_survey.py and in those of unified.py.
C6_EndToEndExample ==
  pc \in {"transp_labelled", "unloading_labelled", "categorized", "extracted"} =>
    \A r \in ExampleRows(df) :
      /\ Col(df, Hdr("est_type"))[r] = Str(<<"V","e","n","t","a"," ","a","l"," ","d","e","t","a","l","l","e">>)
      /\ pc = "transp_labelled"
           => /\ Col(df, Hdr("transp_type"))[r] = List(<<<<"c","a","m","i","ó","n">>>>)
              /\ Replace(transp_rename1, <<"c","a","m","i","ó","n">>) = <<"T","r","u","c","k">>
      /\ pc = "unloading_labelled"
           => /\ Col(df, Hdr("unloading_location"))[r]
                   = List(<<<<"s","o","b","r","e"," ","l","a"," ","v","í","a">>>>)
              /\ Replace(unloading_rename1, <<"s","o","b","r","e"," ","l","a"," ","v","í","a">>)
                   = <<"O","n"," ","t","h","e"," ","r","o","a","d">>
      /\ (pc = "extracted" /\ args.column = "supply_unloading")
           => Col(df, Hdr("supply_unloading_keywords"))[r]
                \in {Str(<<"c","a","m","i","ó","n">>),
                     Str(<<"s","o","b","r","e"," ","l","a"," ","v","í","a">>)}
                    \cap {Str(w) : w \in SeqToSet(args.keywords)}

\* the positions of a run that hold a table of proportions
AggregatedPositions == {"transp_done", "unloading_done", "traditional_done", "distributed"}

\* C7: every establishment type of a table of proportions has a positive
\* total, and its cells are its counts over that total, so that they sum
\* to 1.
C7_ProportionsSumToOne ==
  pc \in AggregatedPositions =>
    \A i \in df.index :
      /\ df.total[i] > 0
      /\ SumOver(df.frequency, i, df.columns) = df.total[i]
      /\ \A l \in df.columns : df.cell[<<i, l>>] = Frac(df.frequency[<<i, l>>], df.total[i])

\* C8: a run that stops on a failed load or write leaves no file in the
\* output directory, neither a truncated one nor one written before the
\* failure.
C8_NoPartialOutput ==
  pc \in {"r_returned_none", "save_raised"} => \A f \in OutputFiles : files[f] = "absent"

\* C9: the type coercion never raises, whatever the numeric and percentage
\* cells hold and whatever the set of floors is; a cell that does not parse
\* is missing afterwards and no row is lost.
C9_CoercionNeverRaises ==
  /\ pc # "clean_raised"
  /\ ~(pc = "survey_raised" /\ err = "ValueError")

\* the values a Likert answer may hold, and the raw cells that denote none
LikertValues == {Num(1), Num(2), Num(3), Num(4), Num(5)}

OutsideLikert(x) ==
  /\ x \notin LikertValues
  /\ ~(x.k = "str" /\ x.s \in {<<"1">>, <<"2">>, <<"3">>, <<"4">>, <<"5">>})

\* the values of supply_frequency_num, and the raw cells that are none of
\* the declared answers
FrequencyValues == {Num(1), Num(2), Num(5), Num(6)}

DeclaredFrequencies ==
  {t_1_vez_por_semana, t_2, t_5, t_6_o_mas, t_la_periodicidad_es_quincenal,
   t_la_periodicidad_es_mensual}

OutsideFrequency(x) == Lower(StrOf(x)) \notin DeclaredFrequencies

\* every cell of the columns cols of d, where present, is in vals or missing
CellsWithin(d, cols, vals) ==
  \A c \in cols : HasCol(d, Hdr(c)) =>
    \A r \in 1..Len(d.rows) : Col(d, Hdr(c))[r] \in vals \cup {NA}

\* from table d to table e the rows stay in number and place, and a cell of
\* column from that Outside holds of is missing in column to
OutsideBecomesMissing(d, e, from, to, Outside(_)) ==
  /\ Len(e.rows) = Len(d.rows)
  /\ HasCol(d, Hdr(from)) =>
       /\ HasCol(e, Hdr(to))
       /\ \A r \in 1..Len(d.rows) :
            Outside(Col(d, Hdr(from))[r]) => Col(e, Hdr(to))[r] = NA

\* C10: after the type coercion every Likert column holds 1..5 or missing and
\* supply_frequency_num holds 1, 2, 5, 6 or missing; a raw value outside the
\* declared set ("3", "4", "no aplica") is missing afterwards, and the
\* coercion leaves the number of rows as it was.
C10_CoercedDomains ==
  /\ [](pc \in {"typed", "normalised", "returned"} =>
          /\ CellsWithin(df, {"supply_safety_percep", "supply_bic_safety_perception"},
                         LikertValues)
          /\ CellsWithin(df, {"supply_frequency_num"}, FrequencyValues))
  /\ [](pc = "survey_typed" =>
          /\ CellsWithin(df, {"safety_perception_motorized", "safety_perception_bicycle"},
                         LikertValues)
          /\ CellsWithin(df, {"supply_frequency_num"}, FrequencyValues))
  /\ [][pc = "tidied" /\ pc' = "typed" =>
          /\ OutsideBecomesMissing(df, df', "supply_safety_percep",
                                   "supply_safety_percep", OutsideLikert)
          /\ OutsideBecomesMissing(df, df', "supply_week",
                                   "supply_frequency_num", OutsideFrequency)]_vars
  /\ [][pc = "survey_cleaned" /\ pc' = "survey_typed" =>
          /\ OutsideBecomesMissing(df, df', "safety_perception_motorized",
                                   "safety_perception_motorized", OutsideLikert)
          /\ OutsideBecomesMissing(df, df', "supply_frequency_per_week",
                                   "supply_frequency_num", OutsideFrequency)]_vars

\* a coerced table with an undeclared frequency turned missing next to a
\* declared one
C10_Witness ==
  /\ pc = "typed"
  /\ \E r, q \in 1..Len(df.rows) :
       /\ Col(df, Hdr("supply_week"))[r] = Str(<<"3">>)
       /\ Col(df, Hdr("supply_frequency_num"))[r] = NA
       /\ Col(df, Hdr("supply_frequency_num"))[q] = Num(6)

\* the first run of digits of the text of a floor, <<>> when it has none
FirstDigitRun(x) ==
  LET s == StrOf(x)
      starts == {i \in 1..Len(s) : IsDigit(s[i])}
  IN IF starts = {} THEN <<>>
     ELSE LET a == CHOOSE i \in starts : \A j \in starts : i <= j
              b == CHOOSE i \in a..Len(s) :
                     /\ \A j \in a..i : IsDigit(s[j])
                     /\ (i = Len(s) \/ ~IsDigit(s[i + 1]))
          IN SubSeq(s, a, b)

\* C11: the categories of warehouse_floor are in ascending order of the
\* number each value holds, not in the order of their text: '10' comes
\* after '9' and after '2'.
C11_FloorsAscendByNumber ==
  (pc \in {"typed", "survey_typed"} /\ HasCol(df, Hdr("warehouse_floor"))) =>
    LET floors == df.cats[Hdr("warehouse_floor")]
    IN \A i, j \in 1..Len(floors) :
         (i < j /\ FirstDigitRun(floors[i]) # <<>> /\ FirstDigitRun(floors[j]) # <<>>)
           => NatValue(FirstDigitRun(floors[i])) <= NatValue(FirstDigitRun(floors[j]))

\* a text as _normalize_text leaves it: lower-case, no accent, no white
\* space at either end, single blanks only
IsNormalized(s) ==
  /\ \A i \in 1..Len(s) : LowerChar(s[i]) = s[i] /\ StripAccentChar(s[i]) = s[i]
  /\ s # <<>> => ~IsSpace(s[1]) /\ ~IsSpace(s[Len(s)])
  /\ \A i \in 1..Len(s) : IsSpace(s[i]) => s[i] = " "
  /\ \A i \in 1..(Len(s) - 1) : ~(IsSpace(s[i]) /\ IsSpace(s[i + 1]))

\* C12: _normalize_text is idempotent, and its result is lower-case, without
\* accents, without white space at its ends and without runs of white space.
C12_NormalizeIdempotent ==
  /\ pc \in {"normalized", "normalized_again"} => IsNormalized(df.rows[1][1].s)
  /\ pc = "normalized_again" => df.rows[1][1] = Str(NormalizeText(raw.rows[1][1]))

\* the text of a blank, "Ñ" and a tab has become "n", and stays so when
\* normalised again
C12_Witness ==
  /\ pc = "normalized_again"
  /\ raw.rows[1][1] = Str(<<" ", "Ñ", "\t">>)
  /\ df.rows[1][1] = Str(<<"n">>)

\* the separators by priority, as the claim lists them
PriorityList == << <<","," ">>, <<";"," ">>, <<",">>, <<";">> >>

\* the separators that occur in the text, by their priority
Occurs(s) == {i \in 1..Len(PriorityList) : Contains(s, PriorityList[i])}

\* the separator of highest priority that occurs in the text
FirstSeparator(s) == PriorityList[CHOOSE i \in Occurs(s) : \A j \in Occurs(s) : i <= j]

\* C13: translate_multi splits a text on the one separator of ', ', '; ',
\* ',', ';' that comes first in this order among those occurring in it; the
\* other separators stay inside the tokens, the translated tokens are joined
\* with the same separator, and a text without separator is one token.
C13_SplitsOnFirstSeparator ==
  (pc = "translated" /\ raw.rows[1][1].k = "str" /\ raw.rows[1][1].s # <<>>) =>
    LET s == raw.rows[1][1].s
        out == df.rows[1][1].s
    IN IF Occurs(s) = {} THEN out = Replace(DAY_EN, Strip(s))
       ELSE LET sep == FirstSeparator(s)
                tokens == Split(s, sep)
                translated == Split(out, sep)
            IN /\ Len(translated) = Len(tokens)
               /\ \A i \in 1..Len(tokens) :
                    translated[i] = Replace(DAY_EN, Strip(tokens[i]))

\* "Feriado;, Lunes" is split at ', ' only: the semicolon stays in the first
\* token, the second one is translated
C13_Witness ==
  /\ pc = "translated"
  /\ raw.rows[1][1] = Str(<<"F","e","r","i","a","d","o",";",","," ","L","u","n","e","s">>)
  /\ df.rows[1][1] = Str(<<"F","e","r","i","a","d","o",";",","," ","M","o","n","d","a","y">>)

\* whether the text is a key of the dictionary
IsKey(mapping, s) == \E i \in 1..Len(mapping) : mapping[i][1] = s

\* the tokens translate_multi takes the text apart into
MultiTokens(s) ==
  IF Occurs(s) = {} THEN <<s>> ELSE Split(s, FirstSeparator(s))

\* the positions of the rows of d that carry the index label i, in their order
RowsOf(d, i) ==
  SelectSeq([q \in 1..Len(d.rows) |-> q], LAMBDA q : d.index[q] = i)

RowCount(labels, r) == IF labels[r] = <<>> THEN 1 ELSE Len(labels[r])

\* the rows the records before record r are expanded into
RECURSIVE Offset(_, _)
Offset(labels, r) ==
  IF r = 1 THEN 0 ELSE Offset(labels, r - 1) + RowCount(labels, r - 1)

\* the table after is the table before with one row for every label of every
\* record (one row with a missing label for a record without labels), in the
\* order of the records, each row with the other fields of its record
Exploded(before, labels, after, h) ==
  /\ Len(after.rows) = Offset(labels, Len(labels) + 1)
  /\ \A r \in 1..Len(labels) :
       /\ \A i, j \in 1..Len(labels[r]) : labels[r][i] = labels[r][j] => i = j
       /\ \A j \in 1..RowCount(labels, r) :
            LET q == Offset(labels, r) + j
            IN /\ Col(after, h)[q] = IF labels[r] = <<>> THEN NA ELSE Str(labels[r][j])
               /\ \A c \in 1..Len(before.columns) :
                    after.rows[q][ColIndex(after, before.columns[c])] = before.rows[r][c]

\* C15: explode keeps the labels: the rows that come from a record carry
\* the labels computed for it, each label on one row, and the other fields of
\* the record; a record with two labels gives two rows.
C15_ExplodePreservesLabels ==
  /\ pc = "extracted" =>
       Exploded(raw,
                [r \in 1..Len(raw.rows) |->
                   KeywordsIn(args.keywords,
                              SearchText(Col(raw, Hdr(args.column))[r], args.normalize))],
                df, Hdr(args.column \o "_keywords"))
  /\ pc = "transp_labelled" =>
       Exploded(raw,
                [r \in 1..Len(raw.rows) |-> Col(df, Hdr("transp_type"))[r].items],
                reset_index(explode(df, Hdr("transp_type"))), Hdr("transp_type"))

\* one record with the two labels camión and motocicleta has become two rows
C15_Witness ==
  /\ pc = "extracted"
  /\ Len(raw.rows) = 1
  /\ Len(df.rows) = 2
  /\ Col(df, Hdr("supply_unloading_keywords")) = <<Str(<<"c","a","m","i","ó","n">>), Str(<<"m","o","t","o","c","i","c","l","e","t","a">>)>>

\* the phrases of the establishment types, by priority
PriorityPhrases ==
  << <<"P","r","o","v","e","e","d","o","r">>, <<"V","e","n","t","a"," ","a","l"," ","d","e","t","a","l","l","e">>, <<"F","a","b","r","i","c","a","n","t","e">>, <<"V","e","n","t","a","s"," ","p","o","r"," ","i","n","t","e","r","n","e","t">> >>

\* the phrases that occur in the text, whatever the casing, by their priority
PhrasesIn(text) ==
  {i \in 1..Len(PriorityPhrases) : Contains(Lower(text), Lower(PriorityPhrases[i]))}

\* C16: the establishment type of an economic-activity text is the first
\* phrase of Proveedor, Venta al detalle, Fabricante, Ventas por internet
\* that occurs in it in any casing, and missing when none occurs.
C16_FirstMatchWins ==
  pc \in {"categorized", "transp_labelled", "unloading_labelled", "traditional_labelled"} =>
    \A r \in 1..Len(df.rows) :
      LET x == Col(df, Hdr("economic_activity"))[r]
      IN x.k = "str" =>
           Col(df, Hdr("est_type"))[r] =
             IF PhrasesIn(x.s) = {} THEN NA
             ELSE Str(PriorityPhrases[CHOOSE i \in PhrasesIn(x.s) :
                                        \A j \in PhrasesIn(x.s) : i <= j])

\* 'Ventas por internet, Proveedor' is a Proveedor, and 'Otro' is of no type
C16_Witness ==
  /\ pc = "categorized"
  /\ Len(df.rows) = 2
  /\ Col(df, Hdr("economic_activity")) =
       <<Str(<<"V","e","n","t","a","s"," ","p","o","r"," ","i","n","t","e","r","n","e","t",","," ","P","r","o","v","e","e","d","o","r">>), Str(<<"O","t","r","o">>)>>
  /\ Col(df, Hdr("est_type")) = <<Str(<<"P","r","o","v","e","e","d","o","r">>), NA>>

\* C17: the table passed to translate_all_multi_labels, to
\* create_one_hot_encoding, to prepare_famd_dataset or to an aggregation
\* function keeps its columns and cells, during the call and when the caller
\* changes the table it got back.
C17_InputNotMutated == [][raw' = raw]_vars

\* the answers of a table the establishment types are derived from are all
\* there, but for the economic activity of some respondent
OnlyActivityMissing(t, field) ==
  /\ ~AnyMissing(t, <<"economic_activity", field, "employees">>)
  /\ ~LowerRaises(t, <<field>>)
  /\ \E r \in 1..Len(t.rows) : IsNA(Col(t, Hdr("economic_activity"))[r])

\* C18: a respondent without an economic_activity answer does not abort
\* the derivation of the establishment types or the aggregation that uses
\* them: the call does not raise, the establishment type of that respondent
\* is missing and every respondent of the table has a row with a type derived.
C18_MissingActivityRetained ==
  /\ ( /\ args.fn \in {"transportation_mode", "unloading_location"}
       /\ OnlyActivityMissing(raw, "supply_unloading") ) => pc # "analysis_raised"
  /\ ( /\ args.fn = "traditional_deliveries"
       /\ OnlyActivityMissing(raw, "delivery_transp_mode") ) => pc # "analysis_raised"
  /\ ( /\ pc \in {"transp_labelled", "unloading_labelled", "categorized"}
       /\ HasCol(raw, Hdr("economic_activity")) ) =>
       /\ Len(df.rows) = Len(raw.rows)
       /\ \A r \in 1..Len(raw.rows) :
            IsNA(Col(raw, Hdr("economic_activity"))[r]) => IsNA(Col(df, Hdr("est_type"))[r])

\* the keys of processed_datasets
ProcessedKeys == {args.processed_datasets[k][1] : k \in 1..Len(args.processed_datasets)}

\* the datasets whose function raised
FailedBuilders == SeqToSet(args.invoked) \ ProcessedKeys

\* the state of a run of create_cleaned_df_for_r from its try blocks on
BuildersState ==
  (args.fn = "create_cleaned_df_for_r" /\ pc \in {"r_excel", "r_workbook", "r_returned"}) =>
    /\ args.invoked = SubSeq(PROCESSED, 1, Len(args.invoked))
    /\ pc \in {"r_workbook", "r_returned"} => args.invoked = PROCESSED
    /\ \A name \in FailedBuilders : files[ProcessedCsv(name)] = "absent"
    /\ pc = "r_returned" =>
         \A k \in 1..Len(PROCESSED) :
           files[ProcessedCsv(PROCESSED[k])] = "complete"
             <=> \E j \in 1..Len(args.processed_datasets) :
                   args.processed_datasets[j] = <<PROCESSED[k], "table">>

\* a try block, whatever its function does, hands over to the next one
BuilderStep ==
  (pc = "r_excel" /\ Len(args.invoked) < Len(PROCESSED)) =>
    /\ pc' = "r_excel"
    /\ args'.invoked = Append(args.invoked, PROCESSED[Len(args.invoked) + 1])
    /\ files' = files

\* C19: in create_cleaned_df_for_r an exception of one of the eleven
\* functions does not stop the run: the functions after it are still called
\* in their order, the dataset that failed has no entry in processed_datasets
\* and no file, and the function returns the datasets that succeeded, whose
\* files are written.
C19_BuilderFailureIsolated == []BuildersState /\ [][BuilderStep]_vars

\* the first function raised, the second returned a table that was exported,
\* and the run returned
C19_Witness ==
  /\ pc = "r_returned"
  /\ "temporal_analysis" \in FailedBuilders
  /\ <<"transportation_mode", "table">> \in SeqToSet(args.processed_datasets)
  /\ files[ProcessedCsv("transportation_mode")] = "complete"

\* the formats the entries of saved_files are for
SavedFormats ==
  {fmt \in SeqToSet(args.formats) :
     \E k \in 1..Len(args.saved_files), d \in 1..Len(DATASETS) :
       args.saved_files[k] = <<DATASETS[d] \o "_" \o fmt, SurveyFile(DATASETS[d], fmt)>>}

\* C20: the dictionary save_analysis_outputs returns names written files
\* only: every path in it is a complete file of the output directory, and it
\* has entries for the formats the first definition of the function has
\* entries for, none for a format other than csv, parquet and excel.
C20_SavedFilesWereWritten ==
  pc = "saved" =>
    /\ \A k \in 1..Len(args.saved_files) : files[args.saved_files[k][2]] = "complete"
    /\ SavedFormats = SeqToSet(save_analysis_outputs_first(args.formats))

\* C21: clean_survey_for_analysis with return_analysis_ready=True does not
\* raise, whatever add_derived_columns is, and every row of the table it
\* returns has an establishment type and no missing value in employees,
\* female_employees, num_deliveries and num_online_deliveries.
C21_AnalysisReadyTable ==
  args.return_analysis_ready =>
    /\ pc # "for_analysis_raised"
    /\ pc = "for_analysis_returned" =>
         /\ HasCol(df, Hdr("est_type"))
         /\ \A r \in 1..Len(df.rows) :
              /\ ~IsNA(Col(df, Hdr("est_type"))[r])
              /\ \A c \in SeqToSet(numeric_cols) :
                   HasCol(df, Hdr(c)) => Col(df, Hdr(c))[r].k = "num"

\* the answer of the sheet to a question, for the respondent of row r of df
RawAnswer(question, r) ==
  raw.rows[df.index[r] + 1][CHOOSE i \in 1..Len(raw.columns) : raw.columns[i].text = question]

\* C22: zuap_warehouse_en is 'Yes', 'No' or 'Not applicable' for a
\* respondent who answered 'Sí', 'No' or 'No aplica' to the question on the
\* warehouse in the ZUAP, and missing for no other respondents than those
\* with another answer.
C22_ZuapTranslated ==
  (pc \in {"derived", "for_analysis_returned"} /\ HasCol(df, Hdr("zuap_warehouse_en"))) =>
    \A r \in 1..Len(df.rows) :
      LET answer == RawAnswer("¿el(los) espacio(s) de bodega están ubicados al interior de la zuap?", r)
          en == Col(df, Hdr("zuap_warehouse_en"))[r]
      IN /\ answer = Str(<<"S","í">>) => en = Str(<<"Y","e","s">>)
         /\ answer = Str(<<"N","o">>) => en = Str(<<"N","o">>)
         /\ answer = Str(<<"N","o"," ","a","p","l","i","c","a">>) => en = Str(<<"N","o","t"," ","a","p","p","l","i","c","a","b","l","e">>)
         /\ IsNA(en) => answer \notin {Str(<<"S","í">>), Str(<<"N","o">>), Str(<<"N","o"," ","a","p","l","i","c","a">>)}

\* C23: after clean_survey zuap_warehouse is 'yes', 'no' or missing in
\* every row: 'yes' for the answers 'Sí' and 'Si' and 'no' for the answer
\* 'No', in any casing and with any blanks around them, missing for 'No
\* aplica', and missing, not the empty text, for a respondent who gave no
\* answer.
C23_ZuapYesNoOrMissing ==
  (args.fn = "clean_survey_for_analysis" /\ pc = "returned") =>
    \A r \in 1..Len(df.rows) :
      LET answer == RawAnswer("¿el(los) espacio(s) de bodega están ubicados al interior de la zuap?", r)
          cell == Col(df, Hdr("zuap_warehouse"))[r]
      IN /\ cell \in {Str(<<"y","e","s">>), Str(<<"n","o">>), NA}
         /\ IsNA(answer) => IsNA(cell)
         /\ (~IsNA(answer) /\ NormalizeText(answer) = <<"s","i">>) => cell = Str(<<"y","e","s">>)
         /\ (~IsNA(answer) /\ NormalizeText(answer) = <<"n","o">>) => cell = Str(<<"n","o">>)
         /\ (~IsNA(answer) /\ NormalizeText(answer) = <<"n","o"," ","a","p","l","i","c","a">>) => IsNA(cell)

\* the cell of column h in row r of df
CellOf(h, r) == Col(df, Hdr(h))[r]

\* C24: the split of the economic activity leaves econ_main, econ_sub1 and
\* econ_sub2 missing for a respondent without economic_activity; for a text
\* that starts with a main category econ_main is that category, and for any
\* other text econ_main is the text and both sub-levels are missing.
C24_EconSplitLevels ==
  (args.fn = "clean_survey_for_analysis" /\ pc = "returned") =>
    \A r \in 1..Len(df.rows) :
      LET x == CellOf("economic_activity", r)
      IN IF IsNA(x)
         THEN IsNA(CellOf("econ_main", r)) /\ IsNA(CellOf("econ_sub1", r))
              /\ IsNA(CellOf("econ_sub2", r))
         ELSE IF \E i \in 1..Len(main_cats) : StartsWith(x.s, main_cats[i])
         THEN \E i \in 1..Len(main_cats) :
                StartsWith(x.s, main_cats[i]) /\ CellOf("econ_main", r) = Str(main_cats[i])
         ELSE CellOf("econ_main", r) = x /\ IsNA(CellOf("econ_sub1", r))
              /\ IsNA(CellOf("econ_sub2", r))

\* C25: num_delivery_corrected is 0 for a respondent whose delivery_mean
\* says that no deliveries are made and the respondent's num_delivery for
\* every other one.
C25_DeliveriesCorrected ==
  pc = "delivery_corrected" =>
    \A r \in 1..Len(df.rows) :
      CellOf("num_delivery_corrected", r) =
        IF CellOf("delivery_mean", r).k = "str"
           /\ Contains(CellOf("delivery_mean", r).s, NoActivityPhrase)
        THEN Num(0) ELSE CellOf("num_delivery", r)

\* the indicator columns of a table, with the column each is taken from
IndicatorsOf(d) ==
  {<<"supply_entrance", supply_indicators[i]>> :
     i \in {j \in 1..Len(supply_indicators) : HasCol(d, Hdr(supply_indicators[j][1]))}}
  \cup {<<"storage_equipement", storage_indicators[i]>> :
          i \in {j \in 1..Len(storage_indicators) : HasCol(d, Hdr(storage_indicators[j][1]))}}

\* C26: an indicator column is 1 in the rows whose answer holds its keyword
\* and 0 in the others, typday_supply is 1 in the rows that name Tuesday,
\* Wednesday or Thursday and 0 in the others, and a respondent without an
\* answer has 0 in every indicator.
C26_IndicatorsFollowKeywords ==
  args.fn = "datacleaning" =>
    /\ \A ind \in IndicatorsOf(df) : \A r \in 1..Len(df.rows) :
         LET x == CellOf(ind[1], r)
         IN CellOf(ind[2][1], r) =
              IF x.k = "str" /\ Contains(x.s, ind[2][2]) THEN Num(1) ELSE Num(0)
    /\ HasCol(df, Hdr("typday_supply")) =>
         \A r \in 1..Len(df.rows) :
           LET x == CellOf("supply_day", r)
           IN CellOf("typday_supply", r) =
                IF x.k = "str" /\ \E i \in 1..Len(typical_days) : Contains(x.s, typical_days[i])
                THEN Num(1) ELSE Num(0)

\* the column of answers a function reads and the label it gives to "none"
NoneLabel ==
  [unloading_equipement |-> <<"warehouse_equipement", <<"N","o">>>>,
   e_commerce_deliveries |-> <<"online_trans_mode", <<"N","o"," ","d","e","l","i","v","e","r","i","e","s">>>>,
   traditional_deliveries |-> <<"delivery_transp_mode", <<"N","o"," ","d","e","l","i","v","e","r","i","e","s">>>>]

\* the answer holds the letters "ning" in some casing
NamesNone(x) == x.k = "str" /\ Contains(Lower(x.s), <<"n","i","n","g">>)

PairRows(d, v, p) ==
  Cardinality({r \in 1..Len(d.rows) : GroupKey(d, "est_type", v, r) = p})

\* the frequencies of the table t are those of the pairs of the rows of d
CountsRowsOf(t, d, v) ==
  \A p \in t.index \X t.columns : t.frequency[p] = PairRows(d, v, p)

\* C29: in every aggregation the frequency of a pair of an establishment type
\* and a label is the number of rows, one label in a row, that have the pair,
\* whatever the other columns hold: a respondent without a value of employees
\* counts like any other.
C29_FrequencyCountsRows ==
  [][/\ (pc = "transp_labelled" /\ pc' = "transp_done")
          => CountsRowsOf(df', reset_index(explode(df, Hdr("transp_type"))), "transp_type")
     /\ (pc = "unloading_labelled" /\ pc' = "unloading_done")
          => CountsRowsOf(df', reset_index(explode(df, Hdr("unloading_location"))),
                          "unloading_location")
     /\ (pc = "traditional_labelled" /\ pc' = "traditional_done")
          => CountsRowsOf(df', df, "delivery_transp_mode")
     /\ (pc = "extracted" /\ pc' = "distributed")
          => CountsRowsOf(df', df, args.column \o "_keywords")]_vars

\* the four category phrases
CategoryPhrases == {Str(est_types[i]) : i \in 1..Len(est_types)}

\* C30: the two derivations of the category of an establishment agree: a
\* respondent whose est_type and whose econ_main are both one of the four
\* category phrases has the same phrase in both.
C30_CategoriesAgree ==
  (pc = "derived" /\ HasCol(df, Hdr("est_type")) /\ HasCol(df, Hdr("econ_main"))) =>
    \A r \in 1..Len(df.rows) :
      (CellOf("est_type", r) \in CategoryPhrases /\ CellOf("econ_main", r) \in CategoryPhrases)
        => CellOf("est_type", r) = CellOf("econ_main", r)

====
